---- MODULE Spec2Model ----
(***************************************************************************)
(* Mock-interview agent: the resilient LLM invoker of tools.py and the     *)
(* session orchestrator of api.py.                                         *)
(*                                                                         *)
(* Python values that may be None are tagged records: None, Str(s), ...    *)
(* Texts are TLA+ strings, read character by character.                    *)
(***************************************************************************)
EXTENDS Integers, Sequences, FiniteSets, TLC

VARIABLES
    INTERVIEW_SESSIONS,   \* api.py: the session mapping; the id of a session is its index
    tasks,                \* api.py: the background units scheduled so far, each with its frame
    response,             \* api.py: what the last request handler answered
    LLM_INVOKE_RETRIES,   \* tools.py: retry budget read from the environment
    LLM_BACKOFF_FACTOR,   \* tools.py: backoff factor read from the environment
    inv,                  \* tools.py: the frame of one _invoke_with_timeout call
    workers               \* tools.py: the _call futures, one per attempt

invVars == <<LLM_INVOKE_RETRIES, LLM_BACKOFF_FACTOR, inv, workers>>

apiVars == <<INTERVIEW_SESSIONS, tasks, response>>

vars == <<INTERVIEW_SESSIONS, tasks, response,
          LLM_INVOKE_RETRIES, LLM_BACKOFF_FACTOR, inv, workers>>

-----------------------------------------------------------------------------
(* Python values *)

None == [t |-> "none"]

Str(s) == [t |-> "str", s |-> s]

Max(a, b) == IF a >= b THEN a ELSE b

Min(a, b) == IF a <= b THEN a ELSE b

RECURSIVE Pow(_, _)
Pow(b, e) == IF e <= 0 THEN 1 ELSE b * Pow(b, e - 1)

-----------------------------------------------------------------------------
(* Python strings, character by character *)

Char(s, i) == IF i \in 1 .. Len(s) THEN SubSeq(s, i, i) ELSE ""

\* str.strip(), str.split(): the whitespace of the texts used here.
IsSpace(c) == c \in {" ", "\t", "\n", "\r", "\f"}

IsDigit(c) == c \in {"0", "1", "2", "3", "4", "5", "6", "7", "8", "9"}

DigitVal(c) == CHOOSE d \in 0 .. 9 : Char("0123456789", d + 1) = c

\* First index from i on that holds no whitespace (Len(s)+1 when none does).
SkipSpace(s, i) ==
    CHOOSE j \in i .. (Len(s) + 1) :
        /\ \A k \in i .. (j - 1) : IsSpace(Char(s, k))
        /\ ~IsSpace(Char(s, j))

\* Last index up to i that holds no whitespace (0 when none does).
SkipSpaceBack(s, i) ==
    CHOOSE j \in 0 .. i :
        /\ \A k \in (j + 1) .. i : IsSpace(Char(s, k))
        /\ ~IsSpace(Char(s, j))

\* s.strip()
Strip(s) ==
    IF SkipSpace(s, 1) > Len(s) THEN ""
    ELSE SubSeq(s, SkipSpace(s, 1), SkipSpaceBack(s, Len(s)))

\* First index from i on that holds a character of set cs (Len(s)+1 when none).
FindFirst(s, i, cs) ==
    CHOOSE j \in i .. (Len(s) + 1) :
        /\ \A k \in i .. (j - 1) : Char(s, k) \notin cs
        /\ (j <= Len(s) => Char(s, j) \in cs)

\* Last index that holds character c (0 when none).
FindLast(s, c) ==
    CHOOSE j \in 0 .. Len(s) :
        /\ \A k \in (j + 1) .. Len(s) : Char(s, k) # c
        /\ (j >= 1 => Char(s, j) = c)

\* s.split('\n')[0]
FirstLine(s) == SubSeq(s, 1, FindFirst(s, 1, {"\n"}) - 1)

\* s.split()[0], for a string that is not blank
FirstWord(s) ==
    SubSeq(s, SkipSpace(s, 1),
           FindFirst(s, SkipSpace(s, 1), {" ", "\t", "\n", "\r", "\f"}) - 1)

\* s[:n]
Prefix(s, n) == SubSeq(s, 1, Min(n, Len(s)))

\* str(n) of an int
RECURSIVE NatStr(_)
NatStr(n) == IF n < 10 THEN Char("0123456789", n + 1)
             ELSE NatStr(n \div 10) \o Char("0123456789", (n % 10) + 1)

IntStr(n) == IF n < 0 THEN "-" \o NatStr(0 - n) ELSE NatStr(n)

-----------------------------------------------------------------------------
(* Python objects as json.loads builds them *)

PyInt(n) == [t |-> "int", n |-> n]

PyBool(b) == [t |-> "bool", b |-> b]

PyList(items) == [t |-> "list", items |-> items]

\* A dict keeps its keys in insertion order; vals[i] belongs to keys[i].
PyDict(keys, vals) == [t |-> "dict", keys |-> keys, vals |-> vals]

Exc(kind, cause) == [t |-> "exc", kind |-> kind, cause |-> cause]

IsStr(v) == v.t = "str"

IsDict(v) == v.t = "dict"

IsExc(v) == v.t = "exc"

HasKey(d, k) == \E i \in DOMAIN d.keys : d.keys[i] = k

KeyIndex(d, k) == CHOOSE i \in DOMAIN d.keys : d.keys[i] = k

\* d.get(k, default)
DictGet(d, k, default) == IF HasKey(d, k) THEN d.vals[KeyIndex(d, k)] ELSE default

\* d[k] = v
DictSet(d, k, v) ==
    IF HasKey(d, k)
    THEN [d EXCEPT !.vals[KeyIndex(d, k)] = v]
    ELSE [d EXCEPT !.keys = Append(@, k), !.vals = Append(@, v)]

\* bool(v): None, "", 0, False, [] and {} are falsy
Truthy(v) ==
    CASE v.t = "none" -> FALSE
      [] v.t = "str" -> v.s # ""
      [] v.t = "int" -> v.n # 0
      [] v.t = "bool" -> v.b
      [] v.t = "list" -> v.items # <<>>
      [] v.t = "dict" -> v.keys # <<>>
      [] OTHER -> TRUE

\* repr(v) and str(v), for strings without quotes, backslashes or control
\* characters (repr then writes them between single quotes).
RECURSIVE PyRepr(_)
RECURSIVE JoinRepr(_, _)
RECURSIVE JoinItems(_, _)
PyRepr(v) ==
    CASE v.t = "none" -> "None"
      [] v.t = "str" -> "'" \o v.s \o "'"
      [] v.t = "int" -> IntStr(v.n)
      [] v.t = "bool" -> IF v.b THEN "True" ELSE "False"
      [] v.t = "list" -> "[" \o JoinRepr(v.items, 1) \o "]"
      [] v.t = "dict" -> "{" \o JoinItems(v, 1) \o "}"
      [] OTHER -> "<object>"

JoinRepr(items, i) ==
    IF i > Len(items) THEN ""
    ELSE PyRepr(items[i]) \o (IF i < Len(items) THEN ", " ELSE "")
         \o JoinRepr(items, i + 1)

JoinItems(d, i) ==
    IF i > Len(d.keys) THEN ""
    ELSE "'" \o d.keys[i] \o "': " \o PyRepr(d.vals[i])
         \o (IF i < Len(d.keys) THEN ", " ELSE "") \o JoinItems(d, i + 1)

PyStr(v) == IF v.t = "str" THEN v.s ELSE PyRepr(v)

-----------------------------------------------------------------------------
(* json.loads: objects, arrays, strings, integers, true, false, null *)

Parsed(v, i) == [ok |-> TRUE, v |-> v, i |-> i]

ParseFail == [ok |-> FALSE, v |-> None, i |-> 0]

\* The character an escape sequence \e stands for ("" when it is no escape
\* handled here; \b and \uXXXX are outside the texts used).
Unescape(e) ==
    CASE e = "\"" -> "\""
      [] e = "\\" -> "\\"
      [] e = "/" -> "/"
      [] e = "n" -> "\n"
      [] e = "t" -> "\t"
      [] e = "r" -> "\r"
      [] e = "f" -> "\f"
      [] OTHER -> ""

\* py_scanstring(strict=True) from the character after the opening quote
RECURSIVE ScanString(_, _, _)
ScanString(s, i, acc) ==
    LET c == Char(s, i) IN
    CASE i > Len(s) -> ParseFail
      [] c = "\"" -> Parsed(Str(acc), i + 1)
      [] c = "\\" ->
            IF Unescape(Char(s, i + 1)) = "" THEN ParseFail
            ELSE ScanString(s, i + 2, acc \o Unescape(Char(s, i + 1)))
      [] c \in {"\n", "\t", "\r", "\f"} -> ParseFail
      [] OTHER -> ScanString(s, i + 1, acc \o c)

\* Value of the digits s[i..j]
RECURSIVE DigitsVal(_, _, _)
DigitsVal(s, i, j) ==
    IF j < i THEN 0 ELSE DigitsVal(s, i, j - 1) * 10 + DigitVal(Char(s, j))

\* NUMBER_RE, integer part: -?(0|[1-9][0-9]*); a fraction or an exponent
\* (a float) is outside the texts used and is refused.
ScanNumber(s, i) ==
    LET d == IF Char(s, i) = "-" THEN i + 1 ELSE i
        e == IF Char(s, d) = "0" THEN d + 1
             ELSE CHOOSE j \in d .. (Len(s) + 1) :
                     /\ \A k \in d .. (j - 1) : IsDigit(Char(s, k))
                     /\ ~IsDigit(Char(s, j))
        n == DigitsVal(s, d, e - 1)
    IN  IF e = d \/ Char(s, e) \in {".", "e", "E"} THEN ParseFail
        ELSE Parsed(PyInt(IF d > i THEN 0 - n ELSE n), e)

RECURSIVE ScanValue(_, _)
RECURSIVE ScanMembers(_, _, _)
RECURSIVE ScanItems(_, _, _)
\* scan_once: the value that starts at s[i]
ScanValue(s, i) ==
    LET c == Char(s, i) IN
    CASE c = "\"" -> ScanString(s, i + 1, "")
      [] c = "{" ->
            IF Char(s, SkipSpace(s, i + 1)) = "}"
            THEN Parsed(PyDict(<<>>, <<>>), SkipSpace(s, i + 1) + 1)
            ELSE ScanMembers(s, SkipSpace(s, i + 1), PyDict(<<>>, <<>>))
      [] c = "[" ->
            IF Char(s, SkipSpace(s, i + 1)) = "]"
            THEN Parsed(PyList(<<>>), SkipSpace(s, i + 1) + 1)
            ELSE ScanItems(s, SkipSpace(s, i + 1), <<>>)
      [] c = "n" /\ SubSeq(s, i, Min(i + 3, Len(s))) = "null" -> Parsed(None, i + 4)
      [] c = "t" /\ SubSeq(s, i, Min(i + 3, Len(s))) = "true" -> Parsed(PyBool(TRUE), i + 4)
      [] c = "f" /\ SubSeq(s, i, Min(i + 4, Len(s))) = "false" -> Parsed(PyBool(FALSE), i + 5)
      [] c = "-" \/ IsDigit(c) -> ScanNumber(s, i)
      [] OTHER -> ParseFail

\* JSONObject: "key" : value pairs from s[i] on, the opening brace consumed
ScanMembers(s, i, d) ==
    IF Char(s, i) # "\"" THEN ParseFail
    ELSE LET k == ScanString(s, i + 1, "")
             colon == SkipSpace(s, k.i)
             v == ScanValue(s, SkipSpace(s, colon + 1))
             next == SkipSpace(s, v.i)
         IN  IF ~k.ok \/ Char(s, colon) # ":" THEN ParseFail
             ELSE IF ~v.ok THEN ParseFail
             ELSE IF Char(s, next) = "}"
                  THEN Parsed(DictSet(d, k.v.s, v.v), next + 1)
             ELSE IF Char(s, next) = ","
                  THEN ScanMembers(s, SkipSpace(s, next + 1), DictSet(d, k.v.s, v.v))
             ELSE ParseFail

\* JSONArray: values from s[i] on, the opening bracket consumed
ScanItems(s, i, items) ==
    LET v == ScanValue(s, i)
        next == SkipSpace(s, v.i)
    IN  IF ~v.ok THEN ParseFail
        ELSE IF Char(s, next) = "]" THEN Parsed(PyList(Append(items, v.v)), next + 1)
        ELSE IF Char(s, next) = ","
             THEN ScanItems(s, SkipSpace(s, next + 1), Append(items, v.v))
        ELSE ParseFail

\* json.loads(s): one value, whitespace around it, nothing else; ParseFail
\* stands for the JSONDecodeError.
json_loads(s) ==
    LET v == ScanValue(s, SkipSpace(s, 1)) IN
    IF v.ok /\ SkipSpace(s, v.i) = Len(s) + 1 THEN v ELSE ParseFail

\* re.search(r"\{[\s\S]*\}", s): from the first "{" to the last "}" after it
\* (m.group(0)); None when there is no such span.
BraceBlock(s) ==
    LET a == FindFirst(s, 1, {"{"})
        b == FindLast(s, "}")
    IN  IF a <= Len(s) /\ b > a THEN Str(SubSeq(s, a, b)) ELSE None

-----------------------------------------------------------------------------
(* tools.py: _invoke_with_timeout *)

\* Largest retry budget and backoff factor the environment is given here.
MaxRetries == 3

MaxBackoff == 3

RetryBudgets == (0 - 1) .. MaxRetries

BackoffFactors == 1 .. MaxBackoff

RetriesDefault == 2

LLM_INVOKE_TIMEOUT == 120

BackoffDefault == 2

\* What the remote completion call can answer, and how it can fail.
Replies == {"{\"question\": \"Q1\"}", "I cannot help"}

TransportErrors == {"APIConnectionError", "RateLimitError"}

\* A retry budget that forgets the first attempt.
AttemptsWithoutFirst(retries) == Max(1, retries)

\* attempts = 1 + max(0, LLM_INVOKE_RETRIES)
Attempts(retries) == 1 + Max(0, retries)

\* A backoff whose exponent is the attempt number itself.
BackoffFromAttempt(factor, attempt) == Pow(factor, attempt)

\* backoff = LLM_BACKOFF_FACTOR ** (attempt - 1)
Backoff(factor, attempt) == Pow(factor, attempt - 1)

\* The frame before the call: nothing attempted, nothing slept, nothing returned.
InvokeFrame ==
    [pc |-> "idle", attempts |-> 0, attempt |-> 0, slept |-> <<>>,
     resp |-> None, raised |-> None]

\* A future of ex.submit(_call): running, then done with a text or an exception;
\* abandoned once fut.result(timeout) gave up on it.
Future(state, value, abandoned) ==
    [state |-> state, value |-> value, abandoned |-> abandoned]

TimeoutError(timeout, attempts) ==
    [t |-> "exc", kind |-> "Timeout", timeout |-> timeout, attempts |-> attempts,
     cause |-> None]

InvocationError(attempt, e) ==
    [t |-> "exc", kind |-> "InvocationFailure", attempts |-> attempt, cause |-> e]

\* line 50: the call starts, the attempt loop is entered.
InvokeCall ==
    /\ inv.pc = "idle"
    /\ inv' = [inv EXCEPT !.pc = "submit",
                          !.attempts = Attempts(LLM_INVOKE_RETRIES),
                          !.attempt = 1]
    /\ UNCHANGED <<LLM_INVOKE_RETRIES, LLM_BACKOFF_FACTOR, workers>>
    /\ UNCHANGED apiVars

\* lines 52-53: a fresh one-worker executor, _call submitted to it.
Submit ==
    /\ inv.pc = "submit"
    /\ workers' = Append(workers, Future("running", None, FALSE))
    /\ inv' = [inv EXCEPT !.pc = "wait"]
    /\ UNCHANGED <<LLM_INVOKE_RETRIES, LLM_BACKOFF_FACTOR>>
    /\ UNCHANGED apiVars

\* lines 42-48: a running _call returns the completion text; this can happen
\* at any time, also after the caller stopped waiting for it.
WorkerReturn(a, text) ==
    /\ a \in DOMAIN workers
    /\ workers[a].state = "running"
    /\ workers' = [workers EXCEPT ![a].state = "returned", ![a].value = Str(text)]
    /\ UNCHANGED <<LLM_INVOKE_RETRIES, LLM_BACKOFF_FACTOR, inv>>
    /\ UNCHANGED apiVars

\* lines 42-48: a running _call raises a transport error.
WorkerRaise(a, e) ==
    /\ a \in DOMAIN workers
    /\ workers[a].state = "running"
    /\ workers' = [workers EXCEPT ![a].state = "raised", ![a].value = Str(e)]
    /\ UNCHANGED <<LLM_INVOKE_RETRIES, LLM_BACKOFF_FACTOR, inv>>
    /\ UNCHANGED apiVars

\* lines 55-56: fut.result gives the text; return leaves the with block.
WaitResult ==
    /\ inv.pc = "wait"
    /\ workers[inv.attempt].state = "returned"
    /\ inv' = [inv EXCEPT !.pc = "exit_return", !.resp = workers[inv.attempt].value]
    /\ UNCHANGED <<LLM_INVOKE_RETRIES, LLM_BACKOFF_FACTOR, workers>>
    /\ UNCHANGED apiVars

\* What both except branches do after fut.cancel(): sleep and continue while
\* attempts remain, raise otherwise (lines 59-63 and 66-71).
RetryOrRaise(frame, factor, exc) ==
    IF frame.attempt < frame.attempts
    THEN [frame EXCEPT !.pc = "exit_continue",
                       !.slept = Append(@, Backoff(factor, frame.attempt))]
    ELSE [frame EXCEPT !.pc = "exit_raise", !.raised = exc]

\* lines 57-63: the timeout elapses while the future is still running;
\* fut.cancel() cannot cancel a running future.
WaitTimeout ==
    /\ inv.pc = "wait"
    /\ workers[inv.attempt].state = "running"
    /\ workers' = [workers EXCEPT ![inv.attempt].abandoned = TRUE]
    /\ inv' = RetryOrRaise(inv, LLM_BACKOFF_FACTOR, TimeoutError(LLM_INVOKE_TIMEOUT, inv.attempts))
    /\ UNCHANGED <<LLM_INVOKE_RETRIES, LLM_BACKOFF_FACTOR>>
    /\ UNCHANGED apiVars

\* lines 64-71: fut.result re-raises the exception of _call.
WaitError ==
    /\ inv.pc = "wait"
    /\ workers[inv.attempt].state = "raised"
    /\ inv' = RetryOrRaise(inv, LLM_BACKOFF_FACTOR,
                           InvocationError(inv.attempt, workers[inv.attempt].value))
    /\ UNCHANGED <<LLM_INVOKE_RETRIES, LLM_BACKOFF_FACTOR, workers>>
    /\ UNCHANGED apiVars

\* line 52: leaving the with block runs ThreadPoolExecutor.__exit__, that is
\* shutdown(wait=True): it joins the worker thread, so the block is left only
\* once the future of this attempt is no longer running.
ExecutorJoined(frame, futures) == futures[frame.attempt].state # "running"

ExitWith ==
    /\ inv.pc \in {"exit_return", "exit_continue", "exit_raise"}
    /\ ExecutorJoined(inv, workers)
    /\ inv' = CASE inv.pc = "exit_return" -> [inv EXCEPT !.pc = "returned"]
                [] inv.pc = "exit_continue" ->
                       [inv EXCEPT !.pc = "submit", !.attempt = @ + 1]
                [] OTHER -> [inv EXCEPT !.pc = "failed"]
    /\ UNCHANGED <<LLM_INVOKE_RETRIES, LLM_BACKOFF_FACTOR, workers>>
    /\ UNCHANGED apiVars

\* api.py at import: no session, nothing scheduled, no request answered yet.
ApiInit ==
    /\ INTERVIEW_SESSIONS = <<>>
    /\ tasks = <<>>
    /\ response = [n |-> 0, op |-> "none", code |-> 0, session_id |-> 0, body |-> None,
                   previous |-> None]

InvokeInit ==
    /\ ApiInit
    /\ LLM_INVOKE_RETRIES \in RetryBudgets
    /\ LLM_BACKOFF_FACTOR \in BackoffFactors
    /\ inv = InvokeFrame
    /\ workers = <<>>

InvokeNext ==
    \/ InvokeCall
    \/ Submit
    \/ \E a \in 1 .. (MaxRetries + 1), text \in Replies : WorkerReturn(a, text)
    \/ \E a \in 1 .. (MaxRetries + 1), e \in TransportErrors : WorkerRaise(a, e)
    \/ WaitResult
    \/ WaitTimeout
    \/ WaitError
    \/ ExitWith

SpecInvoke == InvokeInit /\ [][InvokeNext]_vars

-----------------------------------------------------------------------------
(* tools.py: generate_question *)

\* str(e) of the exceptions raised here.
RECURSIVE ExcStr(_)
ExcStr(e) ==
    CASE e.t = "str" -> e.s
      [] e.kind = "Timeout" ->
            "LLM call timed out after " \o IntStr(e.timeout) \o " seconds (attempts="
            \o IntStr(e.attempts) \o ")"
      [] e.kind = "InvocationFailure" ->
            "LLM invocation failed after " \o IntStr(e.attempts) \o " attempts: "
            \o ExcStr(e.cause)
      [] e.kind = "GenerationFailure" -> "Failed to generate question: " \o ExcStr(e.cause)
      [] e.kind = "EvaluationFailure" -> "Failed to evaluate answer: " \o ExcStr(e.cause)
      [] e.kind = "AttributeError" ->
            "'" \o e.cause.s \o "' object has no attribute 'get'"
      [] e.kind = "IndexError" -> "list index out of range"
      [] e.kind = "MemoryError" -> ""
      [] OTHER -> e.kind

\* type(v).__name__
TypeName(v) ==
    CASE v.t = "none" -> "NoneType"
      [] v.t = "dict" -> "dict"
      [] v.t = "exc" -> v.kind
      [] OTHER -> v.t

\* getattr(resp, 'content', resp) or '': the reply is a str (or None).
ReplyText(resp) == IF resp = None THEN "" ELSE resp.s

\* The value of a parse, None when it failed.
ValueOrNone(p) == IF p.ok THEN p.v ELSE None

\* The parse p unless it failed, and then the parse q.
OrElse(p, q) == IF p.ok THEN p ELSE q

\* lines 96-101: json.loads of the brace block, when there is one.
LoadsBlock(cand) == IF cand = None THEN ParseFail ELSE json_loads(cand.s)

\* lines 92-101: json.loads of the whole text, else of its brace block.
ParseQuestionText(text) ==
    ValueOrNone(OrElse(json_loads(text), LoadsBlock(BraceBlock(text))))

\* lines 104-111: the record used when nothing (or a falsy value) was parsed.
FallbackQuestion(job_description) ==
    PyDict(<<"role", "seniority", "skills", "job_type", "location", "question">>,
           <<Str(Prefix(FirstLine(job_description), 60)),
             Str("unspecified"), Str(""), Str("unspecified"), Str("unspecified"),
             Str("Based on the job description, can you tell me about your experience related to "
                 \o FirstWord(job_description) \o "?")>>)

\* line 113: the question as it is, when a str; else str() of it, stripped.
QuestionOf(parsed) ==
    IF IsStr(DictGet(parsed, "question", None))
    THEN DictGet(parsed, "question", None).s
    ELSE Strip(PyStr(DictGet(parsed, "question", Str(""))))

\* lines 113-115: the returned record
WithQuestion(parsed) ==
    PyDict(<<"question", "parsed">>, <<Str(QuestionOf(parsed)), parsed>>)

\* lines 103-115: what generate_question returns once the text is parsed;
\* split()[0] of a blank job description and .get of a value that is not a
\* dict raise.
QuestionRecord(job_description, parsed) ==
    IF ~Truthy(parsed)
    THEN IF Strip(job_description) = ""
         THEN Exc("GenerationFailure", Exc("IndexError", None))
         ELSE WithQuestion(FallbackQuestion(job_description))
    ELSE IF ~IsDict(parsed)
         THEN Exc("GenerationFailure", Exc("AttributeError", Str(TypeName(parsed))))
         ELSE WithQuestion(parsed)

\* lines 79-118: resp is what _invoke_with_timeout gave, a reply or the
\* exception it raised. Every exception inside is re-raised as RuntimeError
\* "Failed to generate question".
generate_question(job_description, resp) ==
    IF IsExc(resp) THEN Exc("GenerationFailure", resp)
    ELSE QuestionRecord(job_description, ParseQuestionText(Strip(ReplyText(resp))))

-----------------------------------------------------------------------------
(* tools.py: evaluate_answer, evaluate_answer_safe *)

Decoded(s) == [ok |-> TRUE, s |-> s]

DecodeFail == [ok |-> FALSE, s |-> ""]

\* s.encode('utf-8').decode('unicode_escape') for ASCII text: the escapes
\* \" \' \\ \n \t \r \f are replaced, a backslash before a newline is
\* dropped, any other escape is kept as written, and a backslash at the very
\* end is a UnicodeDecodeError (numeric escapes are outside the texts used).
RECURSIVE UnicodeEscape(_, _, _)
UnicodeEscape(s, i, acc) ==
    LET c == Char(s, i)
        e == Char(s, i + 1)
    IN  IF i > Len(s) THEN Decoded(acc)
        ELSE IF c # "\\" THEN UnicodeEscape(s, i + 1, acc \o c)
        ELSE IF i = Len(s) THEN DecodeFail
        ELSE UnicodeEscape(s, i + 2,
               acc \o (CASE e = "\"" -> "\""
                         [] e = "'" -> "'"
                         [] e = "\\" -> "\\"
                         [] e = "n" -> "\n"
                         [] e = "t" -> "\t"
                         [] e = "r" -> "\r"
                         [] e = "f" -> "\f"
                         [] e = "\n" -> ""
                         [] OTHER -> c \o e))

StartsWith(s, c) == Char(s, 1) = c

EndsWith(s, c) == Len(s) >= 1 /\ Char(s, Len(s)) = c

\* lines 141-145 and 157-158: json.loads of the unescaped text
LoadsUnescaped(unq) == IF unq.ok THEN json_loads(unq.s) ELSE ParseFail

\* lines 138-147: text wrapped in one layer of quotes, unescaped and parsed.
ParseQuoted(text) ==
    IF \/ (StartsWith(text, "\"") /\ EndsWith(text, "\""))
       \/ (StartsWith(text, "'") /\ EndsWith(text, "'"))
    THEN LoadsUnescaped(UnicodeEscape(SubSeq(text, 2, Len(text) - 1), 1, ""))
    ELSE ParseFail

\* lines 152-160: the brace block cand, parsed as it is, else after unescaping.
ParseBlock(cand) ==
    IF cand = None THEN ParseFail
    ELSE OrElse(json_loads(cand.s), LoadsUnescaped(UnicodeEscape(cand.s, 1, "")))

\* lines 149-160
ParseBraceBlock(text) == ParseBlock(BraceBlock(text))

\* lines 129-134: a str that was parsed is parsed once more, None when that
\* fails.
ParsedOnceMore(parsed) ==
    IF IsStr(parsed) THEN ValueOrNone(json_loads(parsed.s)) ELSE parsed

\* lines 127-161: the first parse p when it succeeded, else the later ones.
ExtractedValue(p, later) == IF p.ok THEN ParsedOnceMore(p.v) ELSE ValueOrNone(later)

\* lines 126-161: _extract_json; None is the miss.
extract_json(text) ==
    ExtractedValue(json_loads(text), OrElse(ParseQuoted(text), ParseBraceBlock(text)))

\* int(v): an int as it is, a bool as 0 or 1, a str of an optional sign and
\* digits (whitespace around it ignored); anything else raises.
IntOf(v) ==
    CASE v.t = "int" -> [ok |-> TRUE, n |-> v.n]
      [] v.t = "bool" -> [ok |-> TRUE, n |-> IF v.b THEN 1 ELSE 0]
      [] v.t = "str" ->
            LET w == Strip(v.s)
                d == IF Char(w, 1) \in {"-", "+"} THEN 2 ELSE 1
            IN  IF d <= Len(w) /\ \A k \in d .. Len(w) : IsDigit(Char(w, k))
                THEN [ok |-> TRUE,
                      n |-> IF Char(w, 1) = "-" THEN 0 - DigitsVal(w, d, Len(w))
                            ELSE DigitsVal(w, d, Len(w))]
                ELSE [ok |-> FALSE, n |-> 0]
      [] OTHER -> [ok |-> FALSE, n |-> 0]

\* lines 165-168: rating as an int, None when absent, null or not convertible.
RatingOf(d) ==
    IF DictGet(d, "rating", None) = None THEN None
    ELSE IF IntOf(DictGet(d, "rating", None)).ok
         THEN PyInt(IntOf(DictGet(d, "rating", None)).n)
         ELSE None

\* line 177: re.split(r"[\n;,]", v), each part stripped, empty parts dropped.
RECURSIVE SplitParts(_, _)
SplitParts(s, i) ==
    LET j == FindFirst(s, i, {"\n", ";", ","})
        part == Strip(SubSeq(s, i, j - 1))
        rest == IF j > Len(s) THEN <<>> ELSE SplitParts(s, j + 1)
    IN  IF part = "" THEN rest ELSE <<Str(part)>> \o rest

\* lines 170-179: _ensure_list
ensure_list(v) ==
    CASE v.t = "none" -> PyList(<<>>)
      [] v.t = "list" -> v
      [] v.t = "str" -> PyList(SplitParts(v.s, 1))
      [] OTHER -> PyList(<<Str(PyStr(v))>>)

\* lines 163-184: _validate_feedback of a dict
validate_feedback(d) ==
    PyDict(<<"rating", "strengths", "weaknesses", "suggestions">>,
           <<RatingOf(d),
             ensure_list(DictGet(d, "strengths", None)),
             ensure_list(DictGet(d, "weaknesses", None)),
             ensure_list(DictGet(d, "suggestions", None))>>)

\* First index from i on where pat starts in s (0 when nowhere).
FindSub(s, i, pat) ==
    IF \E j \in i .. (Len(s) - Len(pat) + 1) : SubSeq(s, j, j + Len(pat) - 1) = pat
    THEN CHOOSE j \in i .. (Len(s) - Len(pat) + 1) :
            /\ SubSeq(s, j, j + Len(pat) - 1) = pat
            /\ \A k \in i .. (j - 1) : SubSeq(s, k, k + Len(pat) - 1) # pat
    ELSE 0

\* line 204: re.search(r"<JSON>([\s\S]*?)</JSON>", text2), m.group(1)
TagBlock(s) ==
    LET a == FindSub(s, 1, "<JSON>")
        b == IF a = 0 THEN 0 ELSE FindSub(s, a + 6, "</JSON>")
    IN  IF a = 0 \/ b = 0 THEN None ELSE Str(SubSeq(s, a + 6, b - 1))

\* lines 203-206: the value extracted from inside the markers, None without
\* markers.
ExtractedFromTags(m) == IF m = None THEN None ELSE extract_json(m.s)

\* lines 208-214: the result for the reply text and the value extracted;
\* parsed.get of a value that is not a dict raises.
FeedbackOf(text, parsed) ==
    IF parsed = None THEN PyDict(<<"raw_feedback">>, <<Str(text)>>)
    ELSE IF ~IsDict(parsed)
    THEN Exc("EvaluationFailure", Exc("AttributeError", Str(TypeName(parsed))))
    ELSE DictSet(validate_feedback(parsed), "raw", parsed)

\* lines 195-214: the retry is made only when the first extraction missed.
EvaluatedText(text, parsed, resp2) ==
    IF parsed # None THEN FeedbackOf(text, parsed)
    ELSE IF IsExc(resp2) THEN Exc("EvaluationFailure", resp2)
    ELSE FeedbackOf(text, ExtractedFromTags(TagBlock(Strip(ReplyText(resp2)))))

\* lines 193-214
EvaluateReply(text, resp2) == EvaluatedText(text, extract_json(text), resp2)

\* lines 186-218: resp1 and resp2 are what the first and the retry
\* _invoke_with_timeout gave. Every exception inside is re-raised as
\* RuntimeError "Failed to evaluate answer".
evaluate_answer(question, answer, resp1, resp2) ==
    IF IsExc(resp1) THEN Exc("EvaluationFailure", resp1)
    ELSE EvaluateReply(Strip(ReplyText(resp1)), resp2)

\* d.setdefault(k, v)
DictSetDefault(d, k, v) == IF HasKey(d, k) THEN d ELSE DictSet(d, k, v)

\* lines 230-236: the record substituted for a failed evaluation
FailedFeedback(answer) ==
    PyDict(<<"rating", "strengths", "weaknesses", "suggestions", "raw_feedback">>,
           <<None, PyList(<<>>), PyList(<<>>), PyList(<<>>),
             Str("LLM failed or returned invalid JSON for answer: "
                 \o Prefix(answer, 200))>>)

\* A wrapper that forgets the default of raw_feedback.
SafeFeedbackWithoutRawDefault(answer, fb) ==
    IF IsExc(fb) \/ ~Truthy(fb) \/ ~IsDict(fb) THEN FailedFeedback(answer)
    ELSE DictSetDefault(
           DictSetDefault(
             DictSetDefault(
               DictSetDefault(fb, "rating", None),
               "strengths", PyList(<<>>)),
             "weaknesses", PyList(<<>>)),
           "suggestions", PyList(<<>>))

\* lines 229-243: the record of a failed evaluation, else fb with its defaults
SafeFeedback(answer, fb) ==
    IF IsExc(fb) \/ ~Truthy(fb) \/ ~IsDict(fb) THEN FailedFeedback(answer)
    ELSE DictSetDefault(
           DictSetDefault(
             DictSetDefault(
               DictSetDefault(
                 DictSetDefault(fb, "rating", None),
                 "strengths", PyList(<<>>)),
               "weaknesses", PyList(<<>>)),
             "suggestions", PyList(<<>>)),
           "raw_feedback", None)

\* lines 221-243
evaluate_answer_safe(question, answer, resp1, resp2) ==
    SafeFeedback(answer, evaluate_answer(question, answer, resp1, resp2))

-----------------------------------------------------------------------------
(* api.py: the session orchestrator *)

\* Requests handled and sessions created in one behaviour.
MaxRequests == 3

MaxSessions == 2

\* Session ids a client may name; 0 is an id that start_interview never gave.
SessionIds == 0 .. MaxSessions

JobDescriptions == {"", " \n", "Senior backend engineer"}

QuestionTexts == {"Q1"}

AnswerTexts == {"I led the design"}

\* What _invoke_with_timeout gives a background unit: a reply, or the
\* exception it raises when the retry budget is used up.
InvokeTimedOut == TimeoutError(LLM_INVOKE_TIMEOUT, Attempts(RetriesDefault))

QuestionReplies == {Str("{\"question\": \"Q1\"}"), Str("[1]"), InvokeTimedOut}

FeedbackReplies ==
    {Str("{\"rating\": 7, \"strengths\": \"clear, concise\"}"), InvokeTimedOut}

RetryReplies == {Str("Sorry")}

\* A session that is created ready, as if its question were already there.
NewSessionReady(job_description) ==
    [job_description |-> job_description,
     parsed |-> None,
     questions |-> <<>>,
     answers |-> <<>>,
     log |-> <<>>,
     status |-> "ready",
     error |-> None,
     evaluation |-> [status |-> "idle", last_feedback |-> None,
                     next_question |-> None, error |-> None]]

\* lines 56-70: the session start_interview creates
NewSession(job_description) ==
    [job_description |-> job_description,
     parsed |-> None,
     questions |-> <<>>,
     answers |-> <<>>,
     log |-> <<>>,
     status |-> "pending",
     error |-> None,
     evaluation |-> [status |-> "idle", last_feedback |-> None,
                     next_question |-> None, error |-> None]]

\* The frame of a background unit: its arguments, where it stands, and its
\* locals (qobj or feedback in val, next_question, the exception caught).
Task(kind, session_id, question, answer) ==
    [kind |-> kind, session_id |-> session_id, question |-> question,
     answer |-> answer, pc |-> "start", val |-> None, next_question |-> None,
     exc |-> None]

\* What a handler answers; n counts the requests, and previous is what the
\* request before it was answered, which a polling client compares with.
Response(op, code, session_id, body) ==
    [n |-> response.n + 1, op |-> op, code |-> code, session_id |-> session_id,
     body |-> body,
     previous |-> [op |-> response.op, code |-> response.code,
                   session_id |-> response.session_id, body |-> response.body]]

Known(session_id) == session_id \in DOMAIN INTERVIEW_SESSIONS

\* A blank test that forgets to trim.
IsBlankUntrimmed(job_description) == job_description = ""

\* line 52: not job_description.strip()
IsBlank(job_description) == Strip(job_description) = ""

\* lines 49-75
start_interview(job_description) ==
    /\ response.n < MaxRequests
    /\ IF IsBlank(job_description)
       THEN /\ response' = Response("start_interview", 400, 0, None)
            /\ UNCHANGED <<INTERVIEW_SESSIONS, tasks>>
       ELSE /\ Len(INTERVIEW_SESSIONS) < MaxSessions
            /\ INTERVIEW_SESSIONS' =
                   Append(INTERVIEW_SESSIONS, NewSession(job_description))
            /\ tasks' = Append(tasks, Task("generate_first_question",
                                           Len(INTERVIEW_SESSIONS) + 1, "", ""))
            /\ response' = Response("start_interview", 200,
                                    Len(INTERVIEW_SESSIONS) + 1, Str(""))
    /\ UNCHANGED invVars

\* An answer_question that schedules the unit before it looks the session up.
answer_questionSchedulesFirst(session_id, question, answer) ==
    /\ response.n < MaxRequests
    /\ tasks' = Append(tasks, Task("evaluate_answer", session_id, question, answer))
    /\ IF ~Known(session_id)
       THEN /\ response' = Response("answer_question", 404, session_id, None)
            /\ UNCHANGED INTERVIEW_SESSIONS
       ELSE /\ INTERVIEW_SESSIONS' =
                   [INTERVIEW_SESSIONS EXCEPT
                       ![session_id].evaluation.status = "pending",
                       ![session_id].evaluation.error = None]
            /\ response' = Response("answer_question", 200, session_id,
                                    Str("evaluation_scheduled"))
    /\ UNCHANGED invVars

\* An answer_question that resets the whole evaluation sub-state.
answer_questionResetsEvaluation(session_id, question, answer) ==
    /\ response.n < MaxRequests
    /\ IF ~Known(session_id)
       THEN /\ response' = Response("answer_question", 404, session_id, None)
            /\ UNCHANGED <<INTERVIEW_SESSIONS, tasks>>
       ELSE /\ INTERVIEW_SESSIONS' =
                   [INTERVIEW_SESSIONS EXCEPT
                       ![session_id].evaluation =
                           [status |-> "pending", last_feedback |-> None,
                            next_question |-> None, error |-> None]]
            /\ tasks' = Append(tasks, Task("evaluate_answer", session_id,
                                           question, answer))
            /\ response' = Response("answer_question", 200, session_id,
                                    Str("evaluation_scheduled"))
    /\ UNCHANGED invVars

\* lines 104-115
answer_question(session_id, question, answer) ==
    /\ response.n < MaxRequests
    /\ IF ~Known(session_id)
       THEN /\ response' = Response("answer_question", 404, session_id, None)
            /\ UNCHANGED <<INTERVIEW_SESSIONS, tasks>>
       ELSE /\ INTERVIEW_SESSIONS' =
                   [INTERVIEW_SESSIONS EXCEPT
                       ![session_id].evaluation.status = "pending",
                       ![session_id].evaluation.error = None]
            /\ tasks' = Append(tasks, Task("evaluate_answer", session_id,
                                           question, answer))
            /\ response' = Response("answer_question", 200, session_id,
                                    Str("evaluation_scheduled"))
    /\ UNCHANGED invVars

\* lines 165-172: the payload of a status read
Snapshot(session) ==
    [status |-> session.status,
     question |-> IF session.questions # <<>>
                  THEN session.questions[Len(session.questions)] ELSE None,
     error |-> session.error,
     evaluation |-> session.evaluation,
     log |-> session.log]

\* A status read that leaves a trace of itself in the session's log.
statusLogsRead(session_id) ==
    /\ response.n < MaxRequests
    /\ response' = IF ~Known(session_id)
                   THEN Response("status", 404, session_id, None)
                   ELSE Response("status", 200, session_id,
                                 Snapshot(INTERVIEW_SESSIONS[session_id]))
    /\ INTERVIEW_SESSIONS' =
           IF ~Known(session_id) THEN INTERVIEW_SESSIONS
           ELSE [INTERVIEW_SESSIONS EXCEPT ![session_id].log = Append(@, "status: read")]
    /\ UNCHANGED tasks
    /\ UNCHANGED invVars

\* lines 160-172
status(session_id) ==
    /\ response.n < MaxRequests
    /\ response' = IF ~Known(session_id)
                   THEN Response("status", 404, session_id, None)
                   ELSE Response("status", 200, session_id,
                                 Snapshot(INTERVIEW_SESSIONS[session_id]))
    /\ UNCHANGED <<INTERVIEW_SESSIONS, tasks>>
    /\ UNCHANGED invVars

\* A background unit t of the given kind stands at pc.
At(t, kind, pc) ==
    /\ t \in DOMAIN tasks
    /\ tasks[t].kind = kind
    /\ tasks[t].pc = pc

SessionOf(t) == INTERVIEW_SESSIONS[tasks[t].session_id]

\* A log kept in the first session, whichever session the unit belongs to.
LogToFirstSessionAndGoto(t, entry, pc) ==
    /\ INTERVIEW_SESSIONS' = [INTERVIEW_SESSIONS EXCEPT ![1].log = Append(@, entry)]
    /\ tasks' = [tasks EXCEPT ![t].pc = pc]
    /\ UNCHANGED <<response, invVars>>

\* session['log'].append(entry) by unit t, which then stands at pc
LogAndGoto(t, entry, pc) ==
    /\ INTERVIEW_SESSIONS' =
           [INTERVIEW_SESSIONS EXCEPT ![tasks[t].session_id].log = Append(@, entry)]
    /\ tasks' = [tasks EXCEPT ![t].pc = pc]
    /\ UNCHANGED <<response, invVars>>

\* Unit t moves on to pc.
Goto(t, pc) == tasks' = [tasks EXCEPT ![t].pc = pc]

\* Background units that run at the same time; a unit scheduled while that
\* many are running starts once one of them is done.
MaxWorkers == 2

WorkerFree ==
    Cardinality({u \in DOMAIN tasks : tasks[u].pc \notin {"start", "done"}})
        < MaxWorkers

-----------------------------------------------------------------------------
(* api.py: _bg_generate_first_question, statement by statement *)

\* lines 79-83
GenStart(t) ==
    /\ At(t, "generate_first_question", "start")
    /\ WorkerFree
    /\ IF Known(tasks[t].session_id)
       THEN LogAndGoto(t, "bg_generate_first_question: start", "generate")
       ELSE Goto(t, "done") /\ UNCHANGED <<INTERVIEW_SESSIONS, response, invVars>>

\* lines 87-96: what follows the call that gave qobj (or raised it)
GenGenerated(t, qobj) ==
    IF IsExc(qobj)
    THEN /\ tasks' = [tasks EXCEPT ![t].pc = "except_error", ![t].exc = qobj]
         /\ INTERVIEW_SESSIONS' =
                [INTERVIEW_SESSIONS EXCEPT ![tasks[t].session_id].status = "error"]
    ELSE /\ tasks' = [tasks EXCEPT ![t].pc = "append_question", ![t].val = qobj]
         /\ INTERVIEW_SESSIONS' =
                [INTERVIEW_SESSIONS EXCEPT
                    ![tasks[t].session_id].parsed = DictGet(qobj, "parsed", None)]

\* lines 84-90, and 95-96 when generate_question raises: the blocking call
\* returns with resp from the invoker; qobj, question and parsed are locals,
\* so the step ends with the first write that follows, session['parsed'] or,
\* in the handler, session['status'] = 'error'.
GenGenerate(t, resp) ==
    /\ At(t, "generate_first_question", "generate")
    /\ GenGenerated(t, generate_question(SessionOf(t).job_description, resp))
    /\ UNCHANGED <<response, invVars>>

\* line 91
GenAppendQuestion(t) ==
    /\ At(t, "generate_first_question", "append_question")
    /\ INTERVIEW_SESSIONS' =
           [INTERVIEW_SESSIONS EXCEPT
               ![tasks[t].session_id].questions =
                   Append(@, DictGet(tasks[t].val, "question", None))]
    /\ Goto(t, "set_ready")
    /\ UNCHANGED <<response, invVars>>

\* line 92
GenSetReady(t) ==
    /\ At(t, "generate_first_question", "set_ready")
    /\ INTERVIEW_SESSIONS' =
           [INTERVIEW_SESSIONS EXCEPT ![tasks[t].session_id].status = "ready"]
    /\ Goto(t, "set_idle")
    /\ UNCHANGED <<response, invVars>>

\* line 93
GenSetIdle(t) ==
    /\ At(t, "generate_first_question", "set_idle")
    /\ INTERVIEW_SESSIONS' =
           [INTERVIEW_SESSIONS EXCEPT
               ![tasks[t].session_id].evaluation.status = "idle"]
    /\ Goto(t, "log_ready")
    /\ UNCHANGED <<response, invVars>>

\* line 94
GenLogReady(t) ==
    /\ At(t, "generate_first_question", "log_ready")
    /\ LogAndGoto(t, "bg_generate_first_question: question ready ("
                     \o IntStr(Len(PyStr(DictGet(tasks[t].val, "question", None))))
                     \o " chars)", "done")

\* line 97
GenExceptError(t) ==
    /\ At(t, "generate_first_question", "except_error")
    /\ INTERVIEW_SESSIONS' =
           [INTERVIEW_SESSIONS EXCEPT
               ![tasks[t].session_id].error = Str(ExcStr(tasks[t].exc))]
    /\ Goto(t, "except_log")
    /\ UNCHANGED <<response, invVars>>

\* lines 98-101
GenExceptLog(t) ==
    /\ At(t, "generate_first_question", "except_log")
    /\ LogAndGoto(t, "bg_generate_first_question: exception: "
                     \o ExcStr(tasks[t].exc), "done")

-----------------------------------------------------------------------------
(* api.py: _bg_evaluate_answer, statement by statement *)

\* lines 119-123
EvalStart(t) ==
    /\ At(t, "evaluate_answer", "start")
    /\ WorkerFree
    /\ IF Known(tasks[t].session_id)
       THEN LogAndGoto(t, "bg_evaluate_answer: start", "evaluate")
       ELSE Goto(t, "done") /\ UNCHANGED <<INTERVIEW_SESSIONS, response, invVars>>

\* lines 125-127: what follows the call that gave feedback
EvalEvaluated(t, feedback) ==
    /\ tasks' = [tasks EXCEPT
                    ![t].pc = IF Truthy(DictGet(feedback, "raw_feedback", None))
                              THEN "log_snippet" ELSE "append_answer",
                    ![t].val = feedback]
    /\ INTERVIEW_SESSIONS' =
           [INTERVIEW_SESSIONS EXCEPT
               ![tasks[t].session_id].log =
                   Append(@, "bg_evaluate_answer: evaluator returned")]

\* lines 124-127: the blocking call returns the record of
\* evaluate_answer_safe (resp1, resp2: what the invoker gave its two calls);
\* feedback and raw_fb are locals, so the step ends with the log entry of
\* line 125.
EvalEvaluate(t, resp1, resp2) ==
    /\ At(t, "evaluate_answer", "evaluate")
    /\ EvalEvaluated(t, evaluate_answer_safe(tasks[t].question, tasks[t].answer,
                                             resp1, resp2))
    /\ UNCHANGED <<response, invVars>>

\* A handler that throws the answer history away with the failed evaluation.
EvalHardFailureDropsAnswers(t) ==
    /\ At(t, "evaluate_answer", "evaluate")
    /\ tasks' = [tasks EXCEPT ![t].pc = "except_error",
                              ![t].exc = Exc("MemoryError", None)]
    /\ INTERVIEW_SESSIONS' =
           [INTERVIEW_SESSIONS EXCEPT
               ![tasks[t].session_id].evaluation.status = "error",
               ![tasks[t].session_id].answers = <<>>]
    /\ UNCHANGED <<response, invVars>>

\* lines 124-130: the hard failure the handler of line 129 is there for: an
\* exception raised inside the try block in spite of the safe wrapper (a
\* MemoryError is an Exception and any statement can raise it); the step
\* ends with the handler's first write.
EvalHardFailure(t) ==
    /\ At(t, "evaluate_answer", "evaluate")
    /\ tasks' = [tasks EXCEPT ![t].pc = "except_error",
                              ![t].exc = Exc("MemoryError", None)]
    /\ INTERVIEW_SESSIONS' =
           [INTERVIEW_SESSIONS EXCEPT
               ![tasks[t].session_id].evaluation.status = "error"]
    /\ UNCHANGED <<response, invVars>>

\* line 128
EvalLogSnippet(t) ==
    /\ At(t, "evaluate_answer", "log_snippet")
    /\ LogAndGoto(t, "raw_feedback_snippet: "
                     \o Prefix(PyStr(DictGet(tasks[t].val, "raw_feedback", None)), 400),
                  "append_answer")

\* line 131
EvalExceptError(t) ==
    /\ At(t, "evaluate_answer", "except_error")
    /\ INTERVIEW_SESSIONS' =
           [INTERVIEW_SESSIONS EXCEPT
               ![tasks[t].session_id].evaluation.error = Str(ExcStr(tasks[t].exc))]
    /\ Goto(t, "except_log")
    /\ UNCHANGED <<response, invVars>>

\* lines 132-136
EvalExceptLog(t) ==
    /\ At(t, "evaluate_answer", "except_log")
    /\ LogAndGoto(t, "bg_evaluate_answer: exception: " \o ExcStr(tasks[t].exc),
                  "done")

\* A unit that moves on to the next question without recording the answer.
EvalAnswerNotRecorded(t) ==
    /\ At(t, "evaluate_answer", "append_answer")
    /\ Goto(t, "next_question")
    /\ UNCHANGED <<INTERVIEW_SESSIONS, response, invVars>>

\* lines 138-142
EvalAppendAnswer(t) ==
    /\ At(t, "evaluate_answer", "append_answer")
    /\ INTERVIEW_SESSIONS' =
           [INTERVIEW_SESSIONS EXCEPT
               ![tasks[t].session_id].answers =
                   Append(@, [question |-> tasks[t].question,
                              answer |-> tasks[t].answer,
                              feedback |-> tasks[t].val])]
    /\ Goto(t, "next_question")
    /\ UNCHANGED <<response, invVars>>

\* line 146 (148 when generate_question raises)
NextQuestionOf(next_qobj) ==
    IF IsExc(next_qobj) THEN None ELSE DictGet(next_qobj, "question", None)

\* A unit that gives up, with an evaluation error, when the next question
\* could not be generated.
EvalNextQuestionOrError(t, next_question) ==
    IF next_question = None
    THEN /\ tasks' = [tasks EXCEPT ![t].pc = "done"]
         /\ INTERVIEW_SESSIONS' =
                [INTERVIEW_SESSIONS EXCEPT
                    ![tasks[t].session_id].evaluation.status = "error"]
    ELSE /\ tasks' = [tasks EXCEPT ![t].pc = "set_ready",
                                   ![t].next_question = next_question]
         /\ INTERVIEW_SESSIONS' =
                [INTERVIEW_SESSIONS EXCEPT
                    ![tasks[t].session_id].questions = Append(@, next_question)]

\* lines 148-150: next_question is a local, so the step ends with the
\* append of line 150.
EvalNextQuestionIs(t, next_question) ==
    /\ tasks' = [tasks EXCEPT ![t].pc = "set_ready",
                              ![t].next_question = next_question]
    /\ INTERVIEW_SESSIONS' =
           [INTERVIEW_SESSIONS EXCEPT
               ![tasks[t].session_id].questions = Append(@, next_question)]

\* lines 144-150: the blocking call returns with resp from the invoker.
EvalNextQuestion(t, resp) ==
    /\ At(t, "evaluate_answer", "next_question")
    /\ EvalNextQuestionIs(
           t, NextQuestionOf(generate_question(SessionOf(t).job_description, resp)))
    /\ UNCHANGED <<response, invVars>>

\* line 151
EvalSetReady(t) ==
    /\ At(t, "evaluate_answer", "set_ready")
    /\ INTERVIEW_SESSIONS' =
           [INTERVIEW_SESSIONS EXCEPT
               ![tasks[t].session_id].evaluation.status = "ready"]
    /\ Goto(t, "set_feedback")
    /\ UNCHANGED <<response, invVars>>

\* line 152
EvalSetFeedback(t) ==
    /\ At(t, "evaluate_answer", "set_feedback")
    /\ INTERVIEW_SESSIONS' =
           [INTERVIEW_SESSIONS EXCEPT
               ![tasks[t].session_id].evaluation.last_feedback = tasks[t].val]
    /\ Goto(t, "set_next_question")
    /\ UNCHANGED <<response, invVars>>

\* line 153
EvalSetNextQuestion(t) ==
    /\ At(t, "evaluate_answer", "set_next_question")
    /\ INTERVIEW_SESSIONS' =
           [INTERVIEW_SESSIONS EXCEPT
               ![tasks[t].session_id].evaluation.next_question =
                   tasks[t].next_question]
    /\ Goto(t, "log_finished")
    /\ UNCHANGED <<response, invVars>>

\* lines 154-157
EvalLogFinished(t) ==
    /\ At(t, "evaluate_answer", "log_finished")
    /\ LogAndGoto(t, "bg_evaluate_answer: finished, evaluation ready", "done")

-----------------------------------------------------------------------------
(* The service: requests in any order, background units interleaved *)

Init ==
    /\ ApiInit
    /\ LLM_INVOKE_RETRIES = RetriesDefault
    /\ LLM_BACKOFF_FACTOR = BackoffDefault
    /\ inv = InvokeFrame
    /\ workers = <<>>

Units == 1 .. MaxRequests

Next ==
    \/ \E jd \in JobDescriptions : start_interview(jd)
    \/ \E id \in SessionIds, q \in QuestionTexts, a \in AnswerTexts :
           answer_question(id, q, a)
    \/ \E id \in SessionIds : status(id)
    \/ \E t \in Units : GenStart(t)
    \/ \E t \in Units, resp \in QuestionReplies : GenGenerate(t, resp)
    \/ \E t \in Units : GenAppendQuestion(t)
    \/ \E t \in Units : GenSetReady(t)
    \/ \E t \in Units : GenSetIdle(t)
    \/ \E t \in Units : GenLogReady(t)
    \/ \E t \in Units : GenExceptError(t)
    \/ \E t \in Units : GenExceptLog(t)
    \/ \E t \in Units : EvalStart(t)
    \/ \E t \in Units, resp1 \in FeedbackReplies, resp2 \in RetryReplies :
           EvalEvaluate(t, resp1, resp2)
    \/ \E t \in Units : EvalHardFailure(t)
    \/ \E t \in Units : EvalLogSnippet(t)
    \/ \E t \in Units : EvalExceptError(t)
    \/ \E t \in Units : EvalExceptLog(t)
    \/ \E t \in Units : EvalAppendAnswer(t)
    \/ \E t \in Units, resp \in QuestionReplies : EvalNextQuestion(t, resp)
    \/ \E t \in Units : EvalSetReady(t)
    \/ \E t \in Units : EvalSetFeedback(t)
    \/ \E t \in Units : EvalSetNextQuestion(t)
    \/ \E t \in Units : EvalLogFinished(t)

Spec == Init /\ [][Next]_vars

-----------------------------------------------------------------------------
(* One session whose units are given every shape of reply: the question
   generator and the answer evaluator on their inputs *)

ToolJobDescriptions == {"Senior backend engineer", "Data analyst\nSQL"}

ToolAnswers == {"I led the design", ""}

InvokeFailed == InvocationError(Attempts(RetriesDefault), Str("APIConnectionError"))

\* Replies to the question prompt: the asked-for object, JSON that is not an
\* object, objects without a usable question, text around an object, text
\* that is no JSON, no text, and the invoker's two terminal failures.
ToolQuestionReplies ==
    {Str("{\"question\": \"Q1\"}"), Str("[1]"), Str("5"), Str("not json"),
     Str("Sure! {\"question\": \"Q1\"} ok"), Str("{}"), Str("{\"role\": \"dev\"}"),
     Str("{\"question\": null}"), Str("{\"question\": \"\"}"),
     Str("{\"question\": 7}"), Str(""), Str("null"), Str("\"hello\""),
     None, InvokeTimedOut, InvokeFailed}

\* Replies to the evaluation prompt.
ToolFeedbackReplies ==
    {Str("{\"rating\": 7, \"strengths\": [\"a\"], \"weaknesses\": \"x; y,z\\n w\", \"suggestions\": null}"),
     Str("{\"rating\": 15}"), Str("{\"rating\": \"8\"}"), Str("{\"rating\": \" -3 \"}"),
     Str("{\"rating\": \"high\"}"), Str("{\"rating\": true}"),
     Str("{\"rating\": null, \"strengths\": 5}"), Str("{}"), Str("[1]"), Str("0"),
     Str("null"), Str("\"{\\\"rating\\\": 4}\""),
     Str("Feedback: {\"rating\": 5, \"strengths\": \"\"} done"),
     Str("no json here"), Str(""), None, InvokeTimedOut, InvokeFailed}

\* Replies to the retry prompt.
ToolRetryReplies ==
    {Str("<JSON>{\"rating\": 3}</JSON>"), Str("x <JSON>[2]</JSON>"),
     Str("<JSON>nope</JSON>"), Str("{\"rating\": 3}"), None, InvokeTimedOut}

\* The state start_interview(jd) leaves behind in a fresh process.
ToolsInit ==
    /\ \E jd \in ToolJobDescriptions :
           INTERVIEW_SESSIONS = <<NewSession(jd)>>
    /\ tasks = <<Task("generate_first_question", 1, "", "")>>
    /\ response = [n |-> 1, op |-> "start_interview", code |-> 200,
                   session_id |-> 1, body |-> Str(""),
                   previous |-> [op |-> "none", code |-> 0, session_id |-> 0,
                                 body |-> None]]
    /\ LLM_INVOKE_RETRIES = RetriesDefault
    /\ LLM_BACKOFF_FACTOR = BackoffDefault
    /\ inv = InvokeFrame
    /\ workers = <<>>

\* The client answers once, when the first-question unit is done.
ToolsAnswer(answer) ==
    /\ Len(tasks) = 1
    /\ tasks[1].pc = "done"
    /\ answer_question(1, "Q1", answer)

ToolsNext ==
    \/ \E answer \in ToolAnswers : ToolsAnswer(answer)
    \/ \E t \in DOMAIN tasks : GenStart(t)
    \/ \E t \in DOMAIN tasks, resp \in ToolQuestionReplies : GenGenerate(t, resp)
    \/ \E t \in DOMAIN tasks : GenAppendQuestion(t)
    \/ \E t \in DOMAIN tasks : GenSetReady(t)
    \/ \E t \in DOMAIN tasks : GenSetIdle(t)
    \/ \E t \in DOMAIN tasks : GenLogReady(t)
    \/ \E t \in DOMAIN tasks : GenExceptError(t)
    \/ \E t \in DOMAIN tasks : GenExceptLog(t)
    \/ \E t \in DOMAIN tasks : EvalStart(t)
    \/ \E t \in DOMAIN tasks, resp1 \in ToolFeedbackReplies, resp2 \in ToolRetryReplies :
           EvalEvaluate(t, resp1, resp2)
    \/ \E t \in DOMAIN tasks : EvalHardFailure(t)
    \/ \E t \in DOMAIN tasks : EvalLogSnippet(t)
    \/ \E t \in DOMAIN tasks : EvalExceptError(t)
    \/ \E t \in DOMAIN tasks : EvalExceptLog(t)
    \/ \E t \in DOMAIN tasks : EvalAppendAnswer(t)
    \/ \E t \in DOMAIN tasks, resp \in ToolQuestionReplies : EvalNextQuestion(t, resp)
    \/ \E t \in DOMAIN tasks : EvalSetReady(t)
    \/ \E t \in DOMAIN tasks : EvalSetFeedback(t)
    \/ \E t \in DOMAIN tasks : EvalSetNextQuestion(t)
    \/ \E t \in DOMAIN tasks : EvalLogFinished(t)

SpecTools == ToolsInit /\ [][ToolsNext]_vars

-----------------------------------------------------------------------------
(* The first-question unit together with the invoker it blocks in: line 86 of
   api.py calls generate_question, whose line 83 calls _invoke_with_timeout *)

\* What _invoke_with_timeout handed back: the text, or the failure it raised.
InvokerOutcome(frame) == IF frame.pc = "returned" THEN frame.resp ELSE frame.raised

\* tools.py line 83, entered from api.py line 86
GenInvoke(t) ==
    /\ At(t, "generate_first_question", "generate")
    /\ InvokeCall

\* Every way the invoker can end under the default budget: a reply, the
\* timeout of the last attempt, a transport error of the last attempt.
InvokerOutcomes ==
    {Str(text) : text \in Replies}
        \cup {TimeoutError(LLM_INVOKE_TIMEOUT, Attempts(RetriesDefault))}
        \cup {InvocationError(Attempts(RetriesDefault), Str(e)) : e \in TransportErrors}

\* generate_question on each of them, computed once.
GeneratedQuestions ==
    [job_description \in ToolJobDescriptions, resp \in InvokerOutcomes |->
        generate_question(job_description, resp)]

\* api.py lines 86-90 and 95-96 once the invoker has returned or raised
GenInvoked(t) ==
    /\ At(t, "generate_first_question", "generate")
    /\ inv.pc \in {"returned", "failed"}
    /\ GenGenerated(t, GeneratedQuestions[SessionOf(t).job_description,
                                          InvokerOutcome(inv)])
    /\ UNCHANGED <<response, invVars>>

FirstQuestionInit == ToolsInit

\* The steps of the unit's own thread: they are taken whenever they can be.
FirstQuestionCaller ==
    \/ GenStart(1)
    \/ GenInvoke(1)
    \/ Submit
    \/ WaitResult
    \/ WaitTimeout
    \/ WaitError
    \/ ExitWith
    \/ GenInvoked(1)
    \/ GenAppendQuestion(1)
    \/ GenSetReady(1)
    \/ GenSetIdle(1)
    \/ GenLogReady(1)
    \/ GenExceptError(1)
    \/ GenExceptLog(1)

\* The remote completion call answers, fails, or does neither.
FirstQuestionRemote ==
    \/ \E a \in 1 .. (MaxRetries + 1), text \in Replies : WorkerReturn(a, text)
    \/ \E a \in 1 .. (MaxRetries + 1), e \in TransportErrors : WorkerRaise(a, e)

FirstQuestionNext == FirstQuestionCaller \/ FirstQuestionRemote

SpecFirstQuestion ==
    FirstQuestionInit /\ [][FirstQuestionNext]_vars /\ WF_vars(FirstQuestionCaller)

-----------------------------------------------------------------------------
(* tools.py: evaluate_answer statement by statement, one call with the prompts
   it hands to _invoke_with_timeout and the replies it gets *)

\* lines 187-191
EvalPrompt(question, answer) ==
    "You are an expert interviewer and evaluator.\nQuestion: " \o question
        \o "\nCandidate Answer: " \o answer \o "\n\n"
        \o "Return ONLY valid JSON with the exact keys: rating (0-10 integer), strengths (list of short strings), "
        \o "weaknesses (list of short strings), suggestions (list of short strings). Do not include any other text."

\* lines 197-200
RetryPrompt(question, answer) ==
    "Please provide the same JSON output, and wrap it between <JSON> and </JSON> tags with no other text.\n"
        \o "Question: " \o question \o "\nCandidate Answer: " \o answer
        \o "\n\nReturn only: <JSON>{...}</JSON>"

\* The frame of one call of a tool function: its arguments, where it stands,
\* the prompts it gave the invoker, the replies, its locals and its result.
Call(fn, question, answer) ==
    [kind |-> fn, question |-> question, answer |-> answer, pc |-> "start",
     prompts |-> <<>>, responses |-> <<>>, text |-> None, parsed |-> None,
     result |-> None]

CallAt(c, fn, pc) ==
    /\ c \in DOMAIN tasks
    /\ tasks[c].kind = fn
    /\ tasks[c].pc = pc

\* The frame once the invoker was given prompt and answered (or raised) resp.
Invoked(frame, prompt, resp) ==
    [frame EXCEPT !.prompts = Append(@, prompt), !.responses = Append(@, resp)]

\* lines 216-218: every exception becomes RuntimeError "Failed to evaluate answer".
Raised(frame, e) ==
    [frame EXCEPT !.pc = "raised", !.result = Exc("EvaluationFailure", e)]

\* lines 193-196: text and parsed of the first reply; the retry is entered
\* only when parsed is None.
Extracted(frame, text, parsed) ==
    [frame EXCEPT !.text = Str(text), !.parsed = parsed,
                  !.pc = IF parsed = None THEN "retry" ELSE "return"]

FirstReplyText(frame, text) == Extracted(frame, text, extract_json(text))

\* lines 187-196
EvaluateInvoke(c, resp) ==
    /\ CallAt(c, "evaluate_answer", "start")
    /\ tasks' = [tasks EXCEPT ![c] =
          IF IsExc(resp)
          THEN Raised(Invoked(@, EvalPrompt(@.question, @.answer), resp), resp)
          ELSE FirstReplyText(Invoked(@, EvalPrompt(@.question, @.answer), resp),
                              Strip(ReplyText(resp)))]
    /\ UNCHANGED <<INTERVIEW_SESSIONS, response, invVars>>

\* lines 197-206
EvaluateRetry(c, resp2) ==
    /\ CallAt(c, "evaluate_answer", "retry")
    /\ tasks' = [tasks EXCEPT ![c] =
          IF IsExc(resp2)
          THEN Raised(Invoked(@, RetryPrompt(@.question, @.answer), resp2), resp2)
          ELSE [Invoked(@, RetryPrompt(@.question, @.answer), resp2) EXCEPT
                   !.parsed = ExtractedFromTags(TagBlock(Strip(ReplyText(resp2)))),
                   !.pc = "return"]]
    /\ UNCHANGED <<INTERVIEW_SESSIONS, response, invVars>>

\* A raw record that carries the text of the retry.
ReturnedLastText(frame, feedback) ==
    IF frame.parsed = None /\ Len(frame.responses) = 2
    THEN [frame EXCEPT !.pc = "returned",
             !.result = PyDict(<<"raw_feedback">>,
                               <<Str(Strip(ReplyText(frame.responses[2])))>>)]
    ELSE [frame EXCEPT !.pc = IF IsExc(feedback) THEN "raised" ELSE "returned",
                       !.result = feedback]

\* lines 208-218: the record returned, or the RuntimeError raised
Returned(frame, feedback) ==
    [frame EXCEPT !.pc = IF IsExc(feedback) THEN "raised" ELSE "returned",
                  !.result = feedback]

\* lines 208-214
EvaluateReturn(c) ==
    /\ CallAt(c, "evaluate_answer", "return")
    /\ tasks' = [tasks EXCEPT ![c] = Returned(@, FeedbackOf(@.text.s, @.parsed))]
    /\ UNCHANGED <<INTERVIEW_SESSIONS, response, invVars>>

-----------------------------------------------------------------------------
(* tools.py: evaluate_answer_quick *)

UpperLetters == "ABCDEFGHIJKLMNOPQRSTUVWXYZ"

LowerLetters == "abcdefghijklmnopqrstuvwxyz"

LowerChar(c) ==
    IF \E i \in 1 .. 26 : Char(UpperLetters, i) = c
    THEN Char(LowerLetters, CHOOSE i \in 1 .. 26 : Char(UpperLetters, i) = c)
    ELSE c

RECURSIVE Lower(_)
\* str.lower()
Lower(s) ==
    IF Len(s) <= 1 THEN LowerChar(s)
    ELSE Lower(SubSeq(s, 1, Len(s) \div 2)) \o Lower(SubSeq(s, Len(s) \div 2 + 1, Len(s)))

\* pat in s
Contains(s, pat) == FindSub(s, 1, pat) # 0

\* len(text.split()): the runs of characters that are not whitespace
WordCount(s) ==
    Cardinality({i \in 1 .. Len(s) :
                    ~IsSpace(Char(s, i)) /\ (i = 1 \/ IsSpace(Char(s, i - 1)))})

\* lines 259-262
QuickKeywords ==
    <<"design", "scale", "latency", "throughput", "test", "monitor", "debug",
      "optimiz", "performance", "deploy", "ci", "cd", "api", "database", "cache",
      "security", "team", "lead">>

\* line 278
StarKeywords ==
    <<"situation", "task", "action", "result", "impact", "resulted", "led to", "we">>

\* line 284
ImpactWords == <<"percent", "%", "x times", "increase", "decrease">>

\* line 286
ExampleWords == <<"example", "we", "i", "led", "implemented", "built">>

\* any(w in lowered for w in words)
AnyIn(words, lowered) == \E i \in DOMAIN words : Contains(lowered, words[i])

\* line 264
Hits(lowered) == SelectSeq(QuickKeywords, LAMBDA k : Contains(lowered, k))

\* lines 268-276
LengthScore(words) == IF words > 40 THEN 7 ELSE IF words > 15 THEN 5 ELSE 3

LengthStrength(words) ==
    IF words > 40 THEN <<Str("Answer has good detail")>>
    ELSE IF words > 15 THEN <<Str("Answer is reasonably detailed")>>
    ELSE <<>>

LengthWeakness(words) ==
    IF words > 15 THEN <<>>
    ELSE <<Str("Answer is short; add an example or more specifics")>>

\* A rating that is not clamped.
QuickRatingUnclamped(hits, length_score) == (3 * hits) \div 2 + length_score

\* line 282: min(10, max(1, int((len(hits) * 1.5) + (length_score or 0))))
QuickRating(hits, length_score) ==
    Min(10, Max(1, (3 * hits) \div 2 + (IF length_score = 0 THEN 0 ELSE length_score)))

\* lines 265-266: "Mentions: h" for the first five hits
Mentions(hits) ==
    [i \in 1 .. Min(5, Len(hits)) |-> Str("Mentions: " \o hits[i])]

QuickRecord(rating, strengths, weaknesses, suggestions) ==
    PyDict(<<"rating", "strengths", "weaknesses", "suggestions", "raw_feedback">>,
           <<rating, PyList(strengths), PyList(weaknesses), PyList(suggestions), None>>)

\* lines 284-287
QuickSuggestions(text, lowered) ==
    (IF ~Contains(text, "%") /\ ~AnyIn(ImpactWords, lowered)
     THEN <<Str("Include measurable impact (e.g., reduced latency by 30%).")>>
     ELSE <<>>)
    \o (IF ~AnyIn(ExampleWords, lowered)
        THEN <<Str("Add a concrete example with steps and outcome.")>>
        ELSE <<>>)

\* lines 263-295: the record for an answer that is not blank
QuickScored(text, lowered, hits, words) ==
    QuickRecord(PyInt(QuickRating(Len(hits), LengthScore(words))),
                Mentions(hits) \o LengthStrength(words)
                    \o (IF AnyIn(StarKeywords, lowered)
                        THEN <<Str("Uses STAR-style structure or gives concrete impact")>>
                        ELSE <<>>),
                LengthWeakness(words),
                QuickSuggestions(text, lowered))

QuickOfText(text, lowered) == QuickScored(text, lowered, Hits(lowered), WordCount(text))

\* lines 249-257
QuickOfStripped(text) ==
    IF Len(text) = 0
    THEN QuickRecord(PyInt(1), <<>>, <<Str("No answer provided")>>,
             <<Str("Provide a concise answer describing your approach or example.")>>)
    ELSE QuickOfText(text, Lower(text))

\* lines 246-303 for a string answer: no statement of the try block can raise
\* on a string, so the except branch of lines 296-303 is not entered.
evaluate_answer_quick(question, answer) == QuickOfStripped(Strip(answer))

\* One call of evaluate_answer_quick.
EvaluateQuick(c) ==
    /\ CallAt(c, "evaluate_answer_quick", "start")
    /\ tasks' = [tasks EXCEPT ![c] =
          [@ EXCEPT !.pc = "returned",
                    !.result = evaluate_answer_quick(tasks[c].question,
                                                     tasks[c].answer)]]
    /\ UNCHANGED <<INTERVIEW_SESSIONS, response, invVars>>

-----------------------------------------------------------------------------
(* The evaluators called on their inputs, outside any session *)

QuickAnswers ==
    {"", "  \n\t ", "I led the design",
     "We used a CACHE and a database behind the API to cut latency",
     "I design, scale, test, monitor, debug and deploy the api with the team",
     "no", "It grew by 40% after that",
     "one two three four five six seven eight nine ten eleven twelve thirteen fourteen fifteen sixteen",
     "a b c d e f g h i j k l m n o p q r s t u v w x y z a b c d e f g h i j k l m n o",
     "Our team lead had to design for scale and latency so a b c d e f g h i j k l m n o p q r s t u v w x y z 1 2 3 4 5 6"}

EvaluatorsInit ==
    /\ INTERVIEW_SESSIONS = <<>>
    /\ \/ \E answer \in ToolAnswers :
              tasks = <<Call("evaluate_answer", "Q1", answer)>>
       \/ \E answer \in QuickAnswers :
              tasks = <<Call("evaluate_answer_quick", "Q1", answer)>>
    /\ response = [n |-> 0, op |-> "none", code |-> 0, session_id |-> 0,
                   body |-> None, previous |-> None]
    /\ LLM_INVOKE_RETRIES = RetriesDefault
    /\ LLM_BACKOFF_FACTOR = BackoffDefault
    /\ inv = InvokeFrame
    /\ workers = <<>>

EvaluatorsNext ==
    \/ \E resp \in ToolFeedbackReplies : EvaluateInvoke(1, resp)
    \/ \E resp2 \in ToolRetryReplies : EvaluateRetry(1, resp2)
    \/ EvaluateReturn(1)
    \/ EvaluateQuick(1)

SpecEvaluators == EvaluatorsInit /\ [][EvaluatorsNext]_vars

-----------------------------------------------------------------------------
(* Properties of _invoke_with_timeout, checked under SpecInvoke *)

LastFuture == workers[Len(workers)]

\* C3: with a retry budget r >= 0 and every attempt failing, the invoker makes
\* exactly r+1 attempts and then fails; the failure is the Timeout kind when
\* the last attempt timed out, the InvocationFailure kind carrying the last
\* underlying error otherwise; a failed invocation returns no text, and an
\* invocation that returns raised nothing.
C3_ExhaustedBudgetFails ==
    /\ Len(workers) <= Max(0, LLM_INVOKE_RETRIES) + 1
    /\ inv.pc \in {"exit_raise", "failed"} =>
          /\ LLM_INVOKE_RETRIES >= 0 => Len(workers) = LLM_INVOKE_RETRIES + 1
          /\ inv.resp = None
          /\ inv.raised.t = "exc"
          /\ \A a \in DOMAIN workers :
                workers[a].abandoned \/ workers[a].state = "raised"
          /\ LastFuture.abandoned => inv.raised.kind = "Timeout"
          /\ ~LastFuture.abandoned =>
                /\ inv.raised.kind = "InvocationFailure"
                /\ LastFuture.state = "raised"
                /\ inv.raised.cause = LastFuture.value
    /\ inv.pc \in {"exit_return", "returned"} =>
          /\ inv.raised = None
          /\ inv.resp = LastFuture.value
          /\ LastFuture.state = "returned"

\* C3 witness: r = 2, three attempts that all timed out, the Timeout failure.
C3_Witness ==
    /\ inv.pc = "failed"
    /\ LLM_INVOKE_RETRIES = RetriesDefault
    /\ Len(workers) = 3
    /\ \A a \in DOMAIN workers : workers[a].abandoned
    /\ inv.raised.kind = "Timeout"

\* C4: after k failed attempts (k within the retry budget) and a success, the
\* invoker returns the successful text and has slept exactly k times, the
\* i-th sleep lasting backoff^(i-1); the last failed attempt of an exhausted
\* budget is followed by no sleep.
C4_BackoffSleeps ==
    /\ \A i \in DOMAIN inv.slept : inv.slept[i] = Pow(LLM_BACKOFF_FACTOR, i - 1)
    /\ inv.pc \in {"exit_return", "returned"} =>
          /\ Len(inv.slept) = Len(workers) - 1
          /\ Len(inv.slept) <= Max(0, LLM_INVOKE_RETRIES)
          /\ inv.resp = LastFuture.value
          /\ inv.resp.t = "str"
    /\ inv.pc \in {"exit_raise", "failed"} => Len(inv.slept) = Len(workers) - 1

\* C4 witness: two failed attempts, then a success, with factor 2: sleeps 1, 2.
C4_Witness ==
    /\ inv.pc = "returned"
    /\ LLM_BACKOFF_FACTOR = BackoffDefault
    /\ Len(workers) = 3
    /\ inv.slept = <<1, 2>>
    /\ workers[1].abandoned /\ workers[2].state = "raised"

\* C5 (as claimed): the caller never has to wait for a timed-out worker: it
\* is never held at the end of the with block by a future it gave up on.
C5_CallerNeverWaitsForTimedOutWorker ==
    \A a \in DOMAIN workers :
        (workers[a].abandoned /\ workers[a].state = "running") =>
            ~(a = inv.attempt /\ inv.pc \in {"exit_continue", "exit_raise"})

-----------------------------------------------------------------------------
(* Properties of the session orchestrator, checked under Spec *)

Sessions == DOMAIN INTERVIEW_SESSIONS

IsPrefixOf(a, b) == Len(a) <= Len(b) /\ SubSeq(b, 1, Len(a)) = a

\* The invoker gave unit t a reply (it did not raise Timeout or
\* InvocationFailure).
InvokerReturnedText(t) ==
    \/ tasks[t].exc = None
    \/ tasks[t].exc.cause.kind \notin {"Timeout", "InvocationFailure"}

EvaluationSteps ==
    {<<"idle", "pending">>, <<"pending", "ready">>, <<"pending", "error">>,
     <<"ready", "pending">>, <<"error", "pending">>}

\* C1 (as claimed): evaluation.status of a session moves only idle -> pending
\* -> ready or error, and from ready or error back to pending; no other
\* transition occurs in any interleaving.
C1_EvaluationStatusTransitions ==
    [][\A s \in Sessions :
          \/ INTERVIEW_SESSIONS'[s].evaluation.status
                 = INTERVIEW_SESSIONS[s].evaluation.status
          \/ <<INTERVIEW_SESSIONS[s].evaluation.status,
               INTERVIEW_SESSIONS'[s].evaluation.status>> \in EvaluationSteps]_vars

\* C2: questions and answers of every session only grow: each step leaves
\* the previous contents as a prefix, no session disappears, and the steps of
\* an evaluation that failed hard leave the answer history as it was.
C2_HistoryOnlyGrows ==
    [][/\ \A s \in Sessions :
             /\ s \in DOMAIN INTERVIEW_SESSIONS'
             /\ IsPrefixOf(INTERVIEW_SESSIONS[s].questions,
                           INTERVIEW_SESSIONS'[s].questions)
             /\ IsPrefixOf(INTERVIEW_SESSIONS[s].answers,
                           INTERVIEW_SESSIONS'[s].answers)
       /\ \A t \in DOMAIN tasks :
             (/\ tasks[t].kind = "evaluate_answer"
              /\ tasks'[t] # tasks[t]
              /\ tasks'[t].exc # None)
             => INTERVIEW_SESSIONS'[tasks[t].session_id].answers
                    = INTERVIEW_SESSIONS[tasks[t].session_id].answers]_vars

\* C2 witness: an evaluation failed hard in a session that holds an accepted
\* answer and a question.
C2_Witness ==
    \E t \in DOMAIN tasks :
        /\ tasks[t].kind = "evaluate_answer"
        /\ tasks[t].pc = "done"
        /\ tasks[t].exc # None
        /\ INTERVIEW_SESSIONS[tasks[t].session_id].answers # <<>>
        /\ INTERVIEW_SESSIONS[tasks[t].session_id].questions # <<>>

\* C6 (as claimed): once the generate-first-question unit of a session is done
\* and the invoker gave it text, whatever the text, the status read shows
\* status ready and a question that is a non-empty string.
C6_TextGivesReadyQuestion ==
    \A t \in DOMAIN tasks :
        (/\ tasks[t].kind = "generate_first_question"
         /\ tasks[t].pc = "done"
         /\ InvokerReturnedText(t))
        => /\ Snapshot(INTERVIEW_SESSIONS[tasks[t].session_id]).status = "ready"
           /\ INTERVIEW_SESSIONS[tasks[t].session_id].questions # <<>>
           /\ INTERVIEW_SESSIONS[tasks[t].session_id].questions[1].t = "str"
           /\ INTERVIEW_SESSIONS[tasks[t].session_id].questions[1].s # ""

\* C7: start_interview with a job description that is blank after trimming
\* is rejected, and neither the session mapping nor the scheduled units change.
C7_BlankStartRejected ==
    [][\A jd \in JobDescriptions :
          (Strip(jd) = "" /\ start_interview(jd))
          => /\ response'.code = 400
             /\ response'.op = "start_interview"
             /\ INTERVIEW_SESSIONS' = INTERVIEW_SESSIONS
             /\ tasks' = tasks]_vars

\* C7 witness: a start_interview was rejected while a session existed.
C7_Witness ==
    /\ response.op = "start_interview"
    /\ response.code = 400
    /\ INTERVIEW_SESSIONS # <<>>
    /\ tasks # <<>>

\* C8: start_interview with a non-blank job description adds exactly one
\* session under a fresh id, pending, with evaluation idle, empty questions,
\* answers and log and no error; it schedules one generate-first-question
\* unit for that id, returns the id with no question yet, and leaves every
\* other session unchanged.
C8_StartCreatesPendingSession ==
    [][\A jd \in JobDescriptions :
          (Strip(jd) # "" /\ start_interview(jd))
          => LET id == response'.session_id IN
             /\ response'.code = 200
             /\ id \notin Sessions
             /\ DOMAIN INTERVIEW_SESSIONS' = Sessions \cup {id}
             /\ \A s \in Sessions : INTERVIEW_SESSIONS'[s] = INTERVIEW_SESSIONS[s]
             /\ INTERVIEW_SESSIONS'[id].job_description = jd
             /\ INTERVIEW_SESSIONS'[id].status = "pending"
             /\ INTERVIEW_SESSIONS'[id].error = None
             /\ INTERVIEW_SESSIONS'[id].evaluation.status = "idle"
             /\ INTERVIEW_SESSIONS'[id].evaluation.error = None
             /\ INTERVIEW_SESSIONS'[id].questions = <<>>
             /\ INTERVIEW_SESSIONS'[id].answers = <<>>
             /\ INTERVIEW_SESSIONS'[id].log = <<>>
             /\ Snapshot(INTERVIEW_SESSIONS'[id]).question = None
             /\ response'.body = Str("")
             /\ Len(tasks') = Len(tasks) + 1
             /\ SubSeq(tasks', 1, Len(tasks)) = tasks
             /\ tasks'[Len(tasks')].kind = "generate_first_question"
             /\ tasks'[Len(tasks')].session_id = id
             /\ tasks'[Len(tasks')].pc = "start"]_vars

\* C8 witness: a second session was just created, pending and empty, beside
\* a first one that already holds a question.
C8_Witness ==
    /\ response.op = "start_interview"
    /\ response.code = 200
    /\ response.session_id = 2
    /\ INTERVIEW_SESSIONS[1].questions # <<>>
    /\ INTERVIEW_SESSIONS[2].status = "pending"
    /\ INTERVIEW_SESSIONS[2].questions = <<>>
    /\ tasks[Len(tasks)].pc = "start"

\* C9: status and answer_question with a session id that is not in the
\* mapping answer not-found, change no session and schedule no unit.
C9_UnknownSessionNotFound ==
    [][\A id \in SessionIds :
          (/\ id \notin Sessions
           /\ \/ status(id)
              \/ \E q \in QuestionTexts, a \in AnswerTexts : answer_question(id, q, a))
          => /\ response'.code = 404
             /\ INTERVIEW_SESSIONS' = INTERVIEW_SESSIONS
             /\ tasks' = tasks]_vars

\* C9 witness: a request for an unknown id was answered not-found while
\* another session existed.
C9_Witness ==
    /\ response.code = 404
    /\ response.op = "answer_question"
    /\ response.session_id \notin Sessions
    /\ INTERVIEW_SESSIONS # <<>>

\* C10: answer_question on an existing session sets evaluation.status to
\* pending and evaluation.error to None and schedules exactly one
\* evaluate-and-advance unit; nothing else of the session, and no other
\* session, changes.
C10_AnswerOnlyResetsEvaluation ==
    [][\A id \in SessionIds, q \in QuestionTexts, a \in AnswerTexts :
          (id \in Sessions /\ answer_question(id, q, a))
          => /\ response'.code = 200
             /\ DOMAIN INTERVIEW_SESSIONS' = Sessions
             /\ \A s \in Sessions \ {id} :
                   INTERVIEW_SESSIONS'[s] = INTERVIEW_SESSIONS[s]
             /\ INTERVIEW_SESSIONS'[id].evaluation.status = "pending"
             /\ INTERVIEW_SESSIONS'[id].evaluation.error = None
             /\ INTERVIEW_SESSIONS'[id].evaluation.last_feedback
                    = INTERVIEW_SESSIONS[id].evaluation.last_feedback
             /\ INTERVIEW_SESSIONS'[id].evaluation.next_question
                    = INTERVIEW_SESSIONS[id].evaluation.next_question
             /\ INTERVIEW_SESSIONS'[id].status = INTERVIEW_SESSIONS[id].status
             /\ INTERVIEW_SESSIONS'[id].error = INTERVIEW_SESSIONS[id].error
             /\ INTERVIEW_SESSIONS'[id].questions = INTERVIEW_SESSIONS[id].questions
             /\ INTERVIEW_SESSIONS'[id].answers = INTERVIEW_SESSIONS[id].answers
             /\ INTERVIEW_SESSIONS'[id].log = INTERVIEW_SESSIONS[id].log
             /\ INTERVIEW_SESSIONS'[id].parsed = INTERVIEW_SESSIONS[id].parsed
             /\ INTERVIEW_SESSIONS'[id].job_description
                    = INTERVIEW_SESSIONS[id].job_description
             /\ Len(tasks') = Len(tasks) + 1
             /\ SubSeq(tasks', 1, Len(tasks)) = tasks
             /\ tasks'[Len(tasks')] = Task("evaluate_answer", id, q, a)]_vars

\* C10 witness: an answer was just accepted for a session whose previous
\* evaluation had finished: its feedback is kept, the evaluation is pending.
C10_Witness ==
    /\ response.op = "answer_question"
    /\ response.code = 200
    /\ INTERVIEW_SESSIONS[response.session_id].evaluation.status = "pending"
    /\ INTERVIEW_SESSIONS[response.session_id].evaluation.last_feedback # None
    /\ INTERVIEW_SESSIONS[response.session_id].answers # <<>>
    /\ tasks[Len(tasks)].pc = "start"


\* The step is a status request (the handlers alone write response).
StatusRequest == response'.n = response.n + 1 /\ response'.op = "status"

\* What a status read of id shows in the current state.
Visible(id) == IF id \in Sessions THEN Snapshot(INTERVIEW_SESSIONS[id]) ELSE None

\* C11 (as claimed): a status read that follows a status read of the same
\* session, with no start_interview or answer_question between the two,
\* returns the snapshot the first one returned.
C11_RepeatedStatusIdentical ==
    [][(/\ StatusRequest
        /\ response.op = "status"
        /\ response'.session_id = response.session_id)
          => response'.body = response.body]_vars

\* C11 (amended): a status read changes no session and schedules nothing, and
\* a status read that follows a status read of the same session, with no
\* start_interview or answer_question between the two and with the session's
\* status, questions, error, evaluation and log as the first read showed
\* them (no background unit wrote them in between), returns the snapshot the
\* first one returned.
C11_StatusIsPureRead ==
    [][StatusRequest
          => /\ UNCHANGED <<INTERVIEW_SESSIONS, tasks>>
             /\ (/\ response.op = "status"
                 /\ response'.session_id = response.session_id
                 /\ Visible(response.session_id) = response.body)
                   => response'.body = response.body]_vars

\* C11 witness: two status reads in a row of a session a background unit has
\* written to returned the same snapshot.
C11_Witness ==
    /\ response.op = "status"
    /\ response.code = 200
    /\ response.previous.op = "status"
    /\ response.previous.session_id = response.session_id
    /\ response.previous.body = response.body
    /\ response.body.log # <<>>


-----------------------------------------------------------------------------
(* Properties of generate_question and evaluate_answer_safe, checked under
   SpecTools *)

\* The evaluate-and-advance unit t holds what evaluate_answer_safe returned.
HasFeedback(t) ==
    /\ tasks[t].kind = "evaluate_answer"
    /\ tasks[t].pc \notin {"start", "evaluate"}
    /\ tasks[t].exc = None

FeedbackKeys == {"rating", "strengths", "weaknesses", "suggestions", "raw_feedback"}

\* C12: whatever the invoker gave the two calls (any text, no text, Timeout,
\* InvocationFailure) and whatever value the text parsed to,
\* evaluate_answer_safe returns a record, never an exception, and the record
\* has all of rating, strengths, weaknesses, suggestions and raw_feedback.
C12_SafeEvaluationIsTotal ==
    \A t \in DOMAIN tasks :
        HasFeedback(t)
        => /\ IsDict(tasks[t].val)
           /\ \A k \in FeedbackKeys : HasKey(tasks[t].val, k)

\* C12 witness: a unit ran to its end on the record substituted for an
\* evaluation that failed.
C12_Witness ==
    \E t \in DOMAIN tasks :
        /\ HasFeedback(t)
        /\ tasks[t].pc = "done"
        /\ tasks[t].val = FailedFeedback(tasks[t].answer)


\* C13 (as claimed): every record evaluate_answer_safe returns, for a parsed
\* object and for every failure, has the key raw and the key raw_feedback.
C13_RawAndRawFeedbackPresent ==
    \A t \in DOMAIN tasks :
        HasFeedback(t)
        => /\ IsDict(tasks[t].val)
           /\ HasKey(tasks[t].val, "raw")
           /\ HasKey(tasks[t].val, "raw_feedback")


\* C14 (as claimed): the question of every record generate_question returns,
\* to the first-question unit and to the evaluate-and-advance unit, is a
\* non-empty string, also when the parsed object has no question, a null
\* one or one that is not a string.
C14_QuestionIsNonEmptyString ==
    \A t \in DOMAIN tasks :
        /\ (tasks[t].kind = "generate_first_question" /\ tasks[t].val # None)
           => /\ IsStr(DictGet(tasks[t].val, "question", None))
              /\ DictGet(tasks[t].val, "question", None).s # ""
        /\ (tasks[t].kind = "evaluate_answer" /\ tasks[t].next_question # None)
           => /\ IsStr(tasks[t].next_question)
              /\ tasks[t].next_question.s # ""

\* C15 (as claimed): generate_question raises only what the invoker raised
\* when its retries were used up; when the invoker returned text, of any
\* shape, the first-question unit gets a record.
C15_GenerationFailsOnlyWithInvoker ==
    \A t \in DOMAIN tasks :
        (tasks[t].kind = "generate_first_question" /\ tasks[t].exc # None)
        => /\ tasks[t].exc.kind = "GenerationFailure"
           /\ tasks[t].exc.cause.kind \in {"Timeout", "InvocationFailure"}


\* C16 (as claimed): the rating of every record the evaluator returns is
\* null or an integer from 0 to 10, whatever rating the model's object had.
C16_RatingNullOrZeroToTen ==
    \A t \in DOMAIN tasks :
        HasFeedback(t)
        => LET rating == DictGet(tasks[t].val, "rating", None) IN
           \/ rating = None
           \/ rating.t = "int" /\ rating.n \in 0 .. 10


\* C17 (as claimed): when the invoker fails terminally (Timeout or
\* InvocationFailure) in the evaluation of the evaluate-and-advance unit, the
\* unit turns the failure into an error of the session: the step in which
\* the evaluation returns to the unit takes it into its handler, which has
\* caught the failure and set evaluation.status to error.
C17_InvokerFailureBecomesEvaluationError ==
    [][\A t \in DOMAIN tasks, resp1 \in {InvokeTimedOut, InvokeFailed},
          resp2 \in ToolRetryReplies :
          EvalEvaluate(t, resp1, resp2)
          => /\ tasks'[t].exc # None
             /\ INTERVIEW_SESSIONS'[tasks[t].session_id].evaluation.status = "error"]_vars


-----------------------------------------------------------------------------
(* Properties of the evaluate-and-advance unit and of the status reads that
   interleave with it, checked under Spec *)

\* The last request was a status read of a session that exists.
StatusRead == response.op = "status" /\ response.code = 200

\* The evaluate-and-advance unit t of session s has set evaluation.status to
\* ready (line 151).
HasSetReady(t, s) ==
    /\ tasks[t].kind = "evaluate_answer"
    /\ tasks[t].session_id = s
    /\ tasks[t].pc \in {"set_feedback", "set_next_question", "log_finished", "done"}

\* C18 (as claimed): a status read that shows evaluation.status = ready shows
\* the last_feedback and the next_question of a unit that has set ready,
\* never the initial none and never a mixture with an earlier evaluation.
C18_ReadySnapshotIsWhole ==
    (StatusRead /\ response.body.evaluation.status = "ready")
    => \E t \in DOMAIN tasks :
           /\ HasSetReady(t, response.session_id)
           /\ response.body.evaluation.last_feedback = tasks[t].val
           /\ response.body.evaluation.next_question = tasks[t].next_question


\* The step is one of the evaluate-and-advance unit t, on its way with the
\* feedback it obtained (not in its handler).
EvalStepWithFeedback(t) ==
    /\ tasks[t].kind = "evaluate_answer"
    /\ tasks'[t] # tasks[t]
    /\ tasks[t].pc \notin {"start", "evaluate"}
    /\ tasks[t].exc = None

\* C19: in every interleaving, the unit that obtained feedback appends exactly
\* one triple of its question, its answer and that feedback; it goes on to
\* set ready whether or not the next question could be generated, the next
\* question being none when it could not; its last writes set
\* evaluation.status to ready, last_feedback to that feedback and
\* next_question to the next question; and no step of it touches the
\* session's status or sets an error in the evaluation.
C19_EvaluationAdvances ==
    [][\A t \in DOMAIN tasks :
          EvalStepWithFeedback(t)
          => LET old == INTERVIEW_SESSIONS[tasks[t].session_id]
                 new == INTERVIEW_SESSIONS'[tasks[t].session_id]
             IN  /\ tasks'[t].exc = None
                 /\ new.status = old.status
                 /\ new.error = old.error
                 /\ new.evaluation.error = old.evaluation.error
                 /\ new.evaluation.status \in {old.evaluation.status, "ready"}
                 /\ new.answers =
                        IF tasks[t].pc = "append_answer"
                        THEN Append(old.answers,
                                    [question |-> tasks[t].question,
                                     answer |-> tasks[t].answer,
                                     feedback |-> tasks[t].val])
                        ELSE old.answers
                 /\ tasks[t].pc = "next_question"
                    => /\ tasks'[t].pc = "set_ready"
                       /\ \/ tasks'[t].next_question = None
                          \/ IsStr(tasks'[t].next_question)
                 /\ tasks[t].pc = "set_ready" => new.evaluation.status = "ready"
                 /\ tasks[t].pc = "set_feedback"
                    => new.evaluation.last_feedback = tasks[t].val
                 /\ tasks[t].pc = "set_next_question"
                    => new.evaluation.next_question = tasks[t].next_question
                 /\ tasks[t].pc = "log_finished" => tasks'[t].pc = "done"]_vars

\* C19 witness: a unit whose next question could not be generated is done:
\* its triple is in answers, the evaluation is ready with its feedback and no
\* next question, and the session is ready.
C19_Witness ==
    \E t \in DOMAIN tasks :
        /\ tasks[t].kind = "evaluate_answer"
        /\ tasks[t].pc = "done"
        /\ tasks[t].exc = None
        /\ tasks[t].next_question = None
        /\ LET session == INTERVIEW_SESSIONS[tasks[t].session_id] IN
           /\ session.answers = <<[question |-> tasks[t].question,
                                   answer |-> tasks[t].answer,
                                   feedback |-> tasks[t].val]>>
           /\ session.status = "ready"
           /\ session.evaluation = [status |-> "ready",
                                    last_feedback |-> tasks[t].val,
                                    next_question |-> None,
                                    error |-> None]


\* The questions of the sequence that were generated (a failed generation
\* leaves none in its place).
Generated(questions) == {i \in DOMAIN questions : questions[i] # None}

\* The most recent question that was generated.
LastGenerated(questions) ==
    questions[CHOOSE i \in Generated(questions) :
                  \A j \in Generated(questions) : j <= i]

\* C20 (as claimed): once a session has stored a question, a status read of
\* it returns the most recent question that was generated, never none, also
\* after an evaluate-and-advance unit whose next question failed to generate.
C20_FailedQuestionOmitted ==
    [][\A s \in Sessions :
          (/\ StatusRequest
           /\ response'.session_id = s
           /\ Generated(INTERVIEW_SESSIONS[s].questions) # {})
          => response'.body.question = LastGenerated(INTERVIEW_SESSIONS[s].questions)]_vars

-----------------------------------------------------------------------------
(* Properties of the first-question unit with its invoker, checked under
   SpecFirstQuestion *)

FirstQuestionDone == tasks[1].pc = "done"

\* What the finished unit left in its session: the question and ready, or
\* error and the failure message; its start entry, then one outcome entry.
FirstQuestionOutcome ==
    LET s == INTERVIEW_SESSIONS[1]
        frame == tasks[1]
    IN /\ Len(s.log) = 2
       /\ s.log[1] = "bg_generate_first_question: start"
       /\ IF frame.exc = None
          THEN /\ s.status = "ready"
               /\ s.questions = <<DictGet(frame.val, "question", None)>>
               /\ s.log[2] = "bg_generate_first_question: question ready ("
                                \o IntStr(Len(PyStr(s.questions[1]))) \o " chars)"
          ELSE /\ s.status = "error"
               /\ s.error = Str(ExcStr(frame.exc))
               /\ s.log[2] = "bg_generate_first_question: exception: "
                                \o ExcStr(frame.exc)

\* C21: the generate-first-question unit always terminates and leaves its
\* session out of pending: ready with the question appended, or error with
\* the failure message, and its start entry and one outcome entry in the log.
C21_FirstQuestionUnitTerminates ==
    /\ <>FirstQuestionDone
    /\ [](FirstQuestionDone => FirstQuestionOutcome)

\* What does hold: a unit that ends has left the outcome the claim describes.
C21_FinishedUnitLeftOutcome == FirstQuestionDone => FirstQuestionOutcome

\* The unit held for ever: its invoker gave up on an attempt whose remote call
\* is still running, and stands at the end of the with block behind it.
C21_HeldBehindAbandonedCall ==
    /\ tasks[1].pc = "generate"
    /\ inv.pc \in {"exit_continue", "exit_raise"}
    /\ workers[inv.attempt].state = "running"

-----------------------------------------------------------------------------
(* Properties of evaluate_answer and evaluate_answer_quick, checked under
   SpecEvaluators *)

EvaluateCalls == {c \in DOMAIN tasks : tasks[c].kind = "evaluate_answer"}

\* The text evaluate_answer takes from a reply of the invoker.
TextOf(resp) == Strip(ReplyText(resp))

\* The first reply was text and nothing could be extracted from it.
FirstExtractionMissed(frame) ==
    /\ Len(frame.responses) >= 1
    /\ ~IsExc(frame.responses[1])
    /\ extract_json(TextOf(frame.responses[1])) = None

\* The retry was answered and nothing could be extracted from inside its markers.
RetryExtractionMissed(frame) ==
    /\ Len(frame.responses) = 2
    /\ ~IsExc(frame.responses[2])
    /\ ExtractedFromTags(TagBlock(TextOf(frame.responses[2]))) = None

\* C22: evaluate_answer gives the invoker the evaluation prompt once and, only
\* when nothing was extracted from that reply, the marker-wrapped retry prompt
\* once, never a third prompt; when the retry gives nothing either it returns
\* exactly {raw_feedback: text of the first reply} and does not raise.
C22_OneRetryThenRawRecord ==
    \A c \in EvaluateCalls :
        LET frame == tasks[c]
        IN /\ Len(frame.prompts) <= 2
           /\ Len(frame.prompts) = Len(frame.responses)
           /\ frame.pc # "start" =>
                  frame.prompts[1] = EvalPrompt(frame.question, frame.answer)
           /\ Len(frame.prompts) = 2 =>
                  /\ FirstExtractionMissed(frame)
                  /\ frame.prompts[2] = RetryPrompt(frame.question, frame.answer)
           /\ (FirstExtractionMissed(frame) /\ frame.pc \in {"returned", "raised"}) =>
                  Len(frame.prompts) = 2
           /\ (RetryExtractionMissed(frame) /\ frame.pc \in {"return", "returned", "raised"}) =>
                  /\ frame.pc # "raised"
                  /\ frame.pc = "returned" =>
                         frame.result =
                             PyDict(<<"raw_feedback">>,
                                    <<Str(TextOf(frame.responses[1]))>>)

\* A call that retried, found nothing again and returned the raw record of a
\* first reply that is not the retry's reply.
C22_Witness ==
    \E c \in EvaluateCalls :
        /\ tasks[c].pc = "returned"
        /\ RetryExtractionMissed(tasks[c])
        /\ TextOf(tasks[c].responses[1]) # TextOf(tasks[c].responses[2])
        /\ tasks[c].result.keys = <<"raw_feedback">>

\* C23: for the text of a model reply, what generate_question extracts from it
\* (lines 91-101 of tools.py, None for a miss) is what _extract_json yields.
C23_SameExtraction ==
    \A c \in EvaluateCalls :
        tasks[c].text # None =>
            ParseQuestionText(tasks[c].text.s) = extract_json(tasks[c].text.s)

\* The reply on which the two differ: a JSON string that holds an object.
C23_StringInString ==
    \E c \in EvaluateCalls :
        /\ tasks[c].text = Str("\"{\\\"rating\\\": 4}\"")
        /\ IsStr(ParseQuestionText(tasks[c].text.s))
        /\ IsDict(extract_json(tasks[c].text.s))

QuickCalls == {c \in DOMAIN tasks : tasks[c].kind = "evaluate_answer_quick"}

\* floor(1.5 * keyword hits + length score) of a stripped answer
QuickScore(text) ==
    (3 * Len(Hits(Lower(text))) + 2 * LengthScore(WordCount(text))) \div 2

\* C25: evaluate_answer_quick returns, for every string answer, an integer
\* rating in 1..10, which is min(10, max(1, floor(1.5 * hits + length score)))
\* with a length score of 3, 5 or 7; a blank answer gets rating 1 and the
\* weakness "No answer provided"; the call gives the invoker no prompt and
\* leaves the sessions alone.
C25_QuickRatingInRange ==
    \A c \in QuickCalls :
        /\ tasks[c].prompts = <<>>
        /\ INTERVIEW_SESSIONS = <<>>
        /\ tasks[c].pc = "returned" =>
               LET rating == DictGet(tasks[c].result, "rating", None)
                   weaknesses == DictGet(tasks[c].result, "weaknesses", None)
                   text == Strip(tasks[c].answer)
               IN /\ rating.t = "int"
                  /\ rating.n \in 1 .. 10
                  /\ LengthScore(WordCount(text)) \in {3, 5, 7}
                  /\ IF text = ""
                     THEN /\ rating.n = 1
                          /\ \E k \in DOMAIN weaknesses.items :
                                 weaknesses.items[k] = Str("No answer provided")
                     ELSE rating.n = Min(10, Max(1, QuickScore(text)))

\* A quick evaluation whose score had to be cut down to 10.
C25_Witness ==
    \E c \in QuickCalls :
        /\ tasks[c].pc = "returned"
        /\ QuickScore(Strip(tasks[c].answer)) > 10
        /\ DictGet(tasks[c].result, "rating", None) = PyInt(10)

-----------------------------------------------------------------------------
(* Properties of sessions side by side, checked under Spec *)

\* The background unit t took this step, and no other unit moved.
UnitStep(t) ==
    /\ t \in DOMAIN tasks
    /\ tasks'[t] # tasks[t]
    /\ \A u \in DOMAIN tasks : u # t => tasks'[u] = tasks[u]
    /\ response' = response

\* C24: a step of a background unit reads and writes the session it was
\* started for and no other one, so units of two sessions interleave without
\* effect on each other; no step changes the job description of a session.
C24_UnitsKeepToTheirSession ==
    [][\A id \in DOMAIN INTERVIEW_SESSIONS :
          /\ INTERVIEW_SESSIONS'[id].job_description
                 = INTERVIEW_SESSIONS[id].job_description
          /\ \A t \in DOMAIN tasks :
                 (UnitStep(t) /\ tasks[t].session_id # id) =>
                     INTERVIEW_SESSIONS'[id] = INTERVIEW_SESSIONS[id]]_vars

\* Units of two sessions in flight at once, each having written to its session.
C24_Witness ==
    \E t, u \in DOMAIN tasks :
        /\ tasks[t].session_id # tasks[u].session_id
        /\ tasks[t].pc \notin {"start", "done"}
        /\ tasks[u].pc \notin {"start", "done"}
        /\ SessionOf(t).log # <<>>
        /\ SessionOf(u).log # <<>>

\* The evaluate-and-advance units scheduled for session id, in the order of
\* their answer_question calls.
EvalUnitsOf(id) ==
    {t \in DOMAIN tasks :
        tasks[t].kind = "evaluate_answer" /\ tasks[t].session_id = id}

LastEvalUnitOf(id) == CHOOSE t \in EvalUnitsOf(id) : \A u \in EvalUnitsOf(id) : u <= t

\* C26: while evaluation.status of a session is ready, none of its
\* evaluate-and-advance units is in flight and last_feedback is the feedback
\* for the answer submitted last.
C26_ReadyMeansEvaluationOver ==
    \A id \in Sessions :
        INTERVIEW_SESSIONS[id].evaluation.status = "ready" =>
            /\ \A t \in EvalUnitsOf(id) : tasks[t].pc = "done"
            /\ EvalUnitsOf(id) # {} =>
                   INTERVIEW_SESSIONS[id].evaluation.last_feedback
                       = tasks[LastEvalUnitOf(id)].val

\* Two units of one session overlapping: the first has finished and left
\* ready with its own feedback, the unit of the later answer is still at work.
C26_ReadyWhileLaterUnitRuns ==
    \E id \in Sessions : \E t, u \in EvalUnitsOf(id) :
        /\ t < u
        /\ tasks[t].pc = "done"
        /\ tasks[u].pc \in {"evaluate", "log_snippet", "append_answer", "next_question"}
        /\ INTERVIEW_SESSIONS[id].evaluation.status = "ready"
        /\ INTERVIEW_SESSIONS[id].evaluation.last_feedback = tasks[t].val

\* C27: in every state of every session there is at most one question more
\* than there are answers, however the first-question unit and the
\* evaluate-and-advance units interleave.
C27_AtMostOneOpenQuestion ==
    \A id \in Sessions :
        Len(INTERVIEW_SESSIONS[id].questions) <= Len(INTERVIEW_SESSIONS[id].answers) + 1

\* The first-question unit and an evaluate-and-advance unit of one session
\* interleaved: the answer's unit has appended its next question while the
\* first-question unit, its question appended, has not ended yet.
C27_Witness ==
    \E id \in Sessions : \E t \in DOMAIN tasks : \E u \in EvalUnitsOf(id) :
        /\ tasks[t].kind = "generate_first_question"
        /\ tasks[t].session_id = id
        /\ tasks[t].pc \in {"set_ready", "set_idle", "log_ready"}
        /\ tasks[u].pc \in {"set_ready", "set_feedback", "set_next_question",
                            "log_finished", "done"}
        /\ Len(INTERVIEW_SESSIONS[id].questions) = 2
        /\ Len(INTERVIEW_SESSIONS[id].answers) = 1

\* The status tag leaves pending once, for ready or error, and then stays; no
\* request and no evaluate-and-advance unit changes status or error.
StatusIsTerminal ==
    \A id \in Sessions :
        /\ INTERVIEW_SESSIONS'[id].status # INTERVIEW_SESSIONS[id].status =>
               /\ INTERVIEW_SESSIONS[id].status = "pending"
               /\ INTERVIEW_SESSIONS'[id].status \in {"ready", "error"}
        /\ (response'.n # response.n
              \/ \E t \in EvalUnitsOf(id) : tasks'[t] # tasks[t]) =>
               /\ INTERVIEW_SESSIONS'[id].status = INTERVIEW_SESSIONS[id].status
               /\ INTERVIEW_SESSIONS'[id].error = INTERVIEW_SESSIONS[id].error

\* status is error exactly when the error field is set.
ErrorStatusHasMessage ==
    \A id \in Sessions :
        (INTERVIEW_SESSIONS[id].status = "error") = (INTERVIEW_SESSIONS[id].error # None)

ReadyHasQuestion ==
    \A id \in Sessions :
        INTERVIEW_SESSIONS[id].status = "ready" => INTERVIEW_SESSIONS[id].questions # <<>>

\* C28: the status tag of a session is written at most once after creation
\* (pending to ready, or pending to error) and never again; in every state
\* status is error exactly when the error field is not none, and ready only
\* with a question recorded; requests and evaluate-and-advance units change
\* neither status nor error.
C28_StatusTerminalAndErrorRecorded ==
    /\ [][StatusIsTerminal]_vars
    /\ [](ErrorStatusHasMessage /\ ReadyHasQuestion)

\* What does hold of the status tag.
C28_StatusTerminal == [][StatusIsTerminal]_vars

\* The state in between: the session is in error and carries no message yet.
C28_ErrorWithoutMessage ==
    \E t \in DOMAIN tasks :
        /\ At(t, "generate_first_question", "except_error")
        /\ SessionOf(t).status = "error"
        /\ SessionOf(t).error = None

====
